---------------------------- MODULE Spec2Model ----------------------------
(***************************************************************************)
(* Order-flow gateway: the per-symbol depth-synchronisation engine         *)
(* (OrderBookEngine), the snapshot scheduler of useBinanceSocket, and the  *)
(* proxy (server/index.ts): WebSocket fan-out and the REST depth endpoint. *)
(*                                                                         *)
(* The specifications of the module share its variables:                   *)
(*   Spec          one engine, diffs and snapshots with empty payloads,    *)
(*                 driven by the scheduler tick, its retry timer and the   *)
(*                 stream;                                                 *)
(*   SpecBook      one engine, diffs and snapshots carrying price levels;  *)
(*   SpecSched     two engines behind the one scheduler;                   *)
(*   SpecProxy     the proxy: clients, subscriptions, upstream sockets;    *)
(*   SpecProxyFair SpecProxy with timers firing, connections being         *)
(*                 accepted and closing handshakes completing;             *)
(*   SpecRest      the REST depth endpoint with overlapping requests;      *)
(*   SpecBackoff   the backoff of an engine and of a rate-limit record     *)
(*                 over a long run of failures;                            *)
(*   SpecReorder   one engine whose diffs overtake each other on the way;  *)
(*   SpecBuffer    one engine awaiting a snapshot while its buffer fills;  *)
(*   SpecSchedFair SpecSched with ticks firing and fetches completing;     *)
(*   SpecLevels    one engine whose books hold several price levels;       *)
(*   SpecShutdown  the proxy until the process exits after a signal;       *)
(*   SpecAgain     one engine to which the stream may deliver a buffered   *)
(*                 frame a second time;                                    *)
(*   SpecRetry     one engine over a run of failing snapshot attempts.     *)
(***************************************************************************)
EXTENDS Integers, Sequences, FiniteSets, TLC

VARIABLES
    \* ---- useBinanceSocket / OrderBookEngine ----
    activeSymbols,          \* the hook's argument, in array order
    trackers,               \* symbol -> engine fields
    snapshotQueueRef,       \* queue of symbols waiting for a snapshot
    snapshotInProgressRef,  \* the scheduler's "one snapshot in flight" flag
    fetchBy,                \* symbol -> who awaits the pending fetch
    streamPos,              \* symbol -> final id u of the last diff the stream delivered
    wire,                   \* symbol -> diffs the exchange sent that are still under way
    now,                    \* Date.now()
    hist,                   \* symbol -> record of the diffs applied so far (history)
    \* ---- server/index.ts ----
    wsClients,              \* set of connected client sockets
    clientSymbols,          \* client -> set of subscribed symbols
    clientReady,            \* client -> readyState of its socket
    currentStreamSymbols,   \* symbol set of the upstream subscription
    binanceWs,              \* the referenced upstream socket, or NoSocket
    binanceWsState,         \* 'disconnected' | 'connecting' | 'connected'
    reconnectAttempts,      \* attempt counter n
    sockets,                \* upstream socket id -> readyState
    reconnectTimers,        \* number of pending setTimeout(connectToBinance)
    timerDelay,             \* the setTimeout(connectToBinance, ...) call the last handler
                            \* made, if it made one (history)
    fwd,                    \* the upstream frame the last handler forwarded, and who
                            \* received it (history)
    shuttingDown,           \* the SIGINT / SIGTERM handler has run: server.close() is called
    \* ---- server/index.ts: REST depth endpoint ----
    depthCache,             \* symbol -> cached depth snapshot
    rateLimitState,         \* symbol -> [lastRequest, backoffMs]
    pending,                \* request id -> locals of a handler awaiting its upstream fetch
    lastFetch,              \* how the last upstream depth fetch ended (history)
    lastResponse            \* the last response of the depth endpoint (history)

engineVars == <<activeSymbols, trackers, snapshotQueueRef, snapshotInProgressRef,
                fetchBy, streamPos, wire, now, hist>>
proxyVars  == <<wsClients, clientSymbols, clientReady, currentStreamSymbols, binanceWs,
                binanceWsState, reconnectAttempts, sockets, reconnectTimers, timerDelay, fwd,
                shuttingDown>>
restVars   == <<depthCache, rateLimitState, pending, lastFetch, lastResponse>>
vars == <<engineVars, proxyVars, restVars>>

-----------------------------------------------------------------------------
(* Bounds of the model *)

\* largest update id the exchange hands out (stream ids and snapshot ids) in
\* Spec, SpecBook and SpecSched
MaxId == 6
MaxBookId == 2
MaxSchedId == 1
\* largest update id in SpecReorder
MaxReorderId == 3
\* largest update id in SpecAgain
MaxAgainId == 3
\* largest update id in SpecLevels
MaxLevelsId == 3
\* largest update id in SpecBuffer
MaxBufferId == 2300
\* number of clock advances explored in Spec, and in SpecBook and SpecSched
MaxClockSteps == 2
MaxShortClockSteps == 1

(* Program constants *)
MAX_BUFFER_SIZE == 2000
minBackoffMs == 2000
maxBackoffMs == 30000

\* the wall clock at construction; Date.now() is far beyond any backoff
StartTime == maxBackoffMs
\* the clock is observed every ClockStep ms: the first doubled backoff
ClockStep == 2 * minBackoffMs

NoTimer == -1

-----------------------------------------------------------------------------
(* Payloads *)

Prices  == {"10"}
QtyStrs == {"0", "1"}

\* parseFloat on the price and quantity strings of the payloads
parseFloat(q) == CASE q = "0" -> 0
                   [] q = "1" -> 1
                   [] q = "2" -> 2
                   [] q = "9" -> 9
                   [] q = "10" -> 10
                   [] q = "11" -> 11

\* update lists of a diff or a snapshot: [price, qty] string pairs
Levels == {<<p, q>> : p \in Prices, q \in QtyStrs}
UpdateLists == {<< >>} \cup {<<l>> : l \in Levels}
OneLevelLists == {<<l>> : l \in Levels}
\* update lists over three prices, whose order as strings is not their order
\* as numbers, and a snapshot side with a level of quantity 0
WideLists == {<<<<"10", "2">>, <<"9", "1">>, <<"11", "1">>>>,
              <<<<"10", "0">>>>,
              <<<<"11", "2">>>>}
SnapshotSides == {<<<<"10", "0">>, <<"9", "2">>>>}

\* Map<string, number>
EmptyMap == [p \in {} |-> 0]
MapSet(m, k, v) == [p \in (DOMAIN m) \cup {k} |-> IF p = k THEN v ELSE m[p]]
MapDelete(m, k) == [p \in (DOMAIN m) \ {k} |-> m[p]]

Min(a, b) == IF a < b THEN a ELSE b

-----------------------------------------------------------------------------
(* OrderBookEngine *)

\* constructor
NewEngine == [bids |-> EmptyMap, asks |-> EmptyMap, lastUpdateId |-> 0,
              isSynced |-> FALSE, buffer |-> << >>, resyncInFlight |-> FALSE,
              lastResyncAt |-> 0, needsResync |-> TRUE, degraded |-> FALSE,
              snapshotBackoffMs |-> minBackoffMs, retryTimeoutId |-> NoTimer]

\* applyUpdate(updates, book)
RECURSIVE applyUpdate(_, _)
applyUpdate(updates, book) ==
    IF updates = << >> THEN book
    ELSE LET p   == Head(updates)[1]
             qty == parseFloat(Head(updates)[2])
         IN  applyUpdate(Tail(updates),
                         IF qty = 0 THEN MapDelete(book, p) ELSE MapSet(book, p, qty))

\* addToBuffer without the size limit
addToBuffer_NoLimit(buf, event) == Append(buf, event)

\* an id field that is missing or not a number, and "typeof x === 'number'"
NotANumber == -1
IsNumber(x) == x # NotANumber

\* addToBuffer(event, now)
addToBuffer(buf, event) ==
    LET dropCount == (MAX_BUFFER_SIZE * 1) \div 10
        kept == IF Len(buf) >= MAX_BUFFER_SIZE
                THEN SubSeq(buf, dropCount + 1, Len(buf))
                ELSE buf
    IN  IF ~IsNumber(event.u) \/ ~IsNumber(event.U) THEN buf
        ELSE Append(kept, event)

\* Array.prototype.sort((a, b) => a.u - b.u): stable insertion by u
RECURSIVE InsertByU(_, _)
InsertByU(sorted, ev) ==
    IF sorted = << >> THEN <<ev>>
    ELSE IF Head(sorted).u <= ev.u
         THEN <<Head(sorted)>> \o InsertByU(Tail(sorted), ev)
         ELSE <<ev>> \o sorted

\* the buffer left in the order of arrival
SortByU_AsBuffered(buf) == buf

RECURSIVE SortByU(_)
SortByU(buf) ==
    IF buf = << >> THEN << >>
    ELSE InsertByU(SortByU(SubSeq(buf, 1, Len(buf) - 1)), buf[Len(buf)])

\* first loop of replayBuffer: index of the first event that straddles
\* lastUpdateId + 1, skipping events with u <= lastUpdateId; 0 when none
RECURSIVE FindStart(_, _, _)
FindStart(buf, last, i) ==
    IF i > Len(buf) THEN 0
    ELSE IF buf[i].u <= last THEN FindStart(buf, last, i + 1)
    ELSE IF buf[i].U <= last + 1 /\ buf[i].u >= last + 1 THEN i
    ELSE FindStart(buf, last, i + 1)

\* second loop of replayBuffer over st = [bids, asks, lastUpdateId, ok, applied]
RECURSIVE ReplayFrom(_, _, _)
ReplayFrom(buf, i, st) ==
    IF i > Len(buf) THEN st
    ELSE IF buf[i].U > st.lastUpdateId + 1 THEN [st EXCEPT !.ok = FALSE]
    ELSE IF buf[i].u > st.lastUpdateId
         THEN ReplayFrom(buf, i + 1,
                [st EXCEPT !.bids = applyUpdate(buf[i].b, st.bids),
                           !.asks = applyUpdate(buf[i].a, st.asks),
                           !.lastUpdateId = buf[i].u,
                           !.applied = Append(st.applied,
                                [U |-> buf[i].U, u |-> buf[i].u, prev |-> st.lastUpdateId])])
         ELSE ReplayFrom(buf, i + 1, st)

\* a replay that applies every buffered diff in order of u, whatever its ids
replayBuffer_ApplyAll(e) ==
    LET sorted == SortByU(e.buffer)
        st[i \in 0..Len(sorted)] ==
            IF i = 0
            THEN [bids |-> e.bids, asks |-> e.asks, lastUpdateId |-> e.lastUpdateId]
            ELSE [bids |-> applyUpdate(sorted[i].b, st[i - 1].bids),
                  asks |-> applyUpdate(sorted[i].a, st[i - 1].asks),
                  lastUpdateId |-> sorted[i].u]
        r == st[Len(sorted)]
    IN  [engine |-> [e EXCEPT !.bids = r.bids, !.asks = r.asks,
                              !.lastUpdateId = r.lastUpdateId,
                              !.buffer = << >>],
         ok |-> TRUE, applied |-> << >>]

\* replayBuffer(): the engine after the replay, whether it succeeded, and the
\* diffs it applied (each with lastUpdateId at the moment it was applied)
replayBuffer(e) ==
    IF Len(e.buffer) = 0
    THEN [engine |-> e, ok |-> TRUE, applied |-> << >>]
    ELSE LET sorted == SortByU(e.buffer)
             startIdx == FindStart(sorted, e.lastUpdateId, 1)
         IN  IF startIdx = 0
             THEN [engine |-> [e EXCEPT !.buffer = << >>], ok |-> FALSE, applied |-> << >>]
             ELSE LET r == ReplayFrom(sorted, startIdx,
                                [bids |-> e.bids, asks |-> e.asks,
                                 lastUpdateId |-> e.lastUpdateId,
                                 ok |-> TRUE, applied |-> << >>])
                  IN  [engine |-> [e EXCEPT !.bids = r.bids, !.asks = r.asks,
                                            !.lastUpdateId = r.lastUpdateId,
                                            !.buffer = << >>],
                       ok |-> r.ok, applied |-> r.applied]

\* the keys of a book side sorted the same way for bids and asks
SortedKeys_Ascending(keys, isAsk) ==
    LET RECURSIVE Asc(_)
        Asc(ks) == IF ks = {} THEN << >>
                   ELSE LET k == CHOOSE x \in ks : \A y \in ks : parseFloat(x) <= parseFloat(y)
                        IN  <<k>> \o Asc(ks \ {k})
    IN  Asc(keys)

\* "Array.from(book.keys()).sort((a, b) => isAsk ? priceA - priceB : priceB -
\* priceA)"; the keys of the model parse to different numbers
RECURSIVE SortedKeys(_, _)
SortedKeys(keys, isAsk) ==
    IF keys = {} THEN << >>
    ELSE LET k == CHOOSE x \in keys : \A y \in keys :
                      IF isAsk THEN parseFloat(x) <= parseFloat(y)
                      ELSE parseFloat(x) >= parseFloat(y)
         IN  <<k>> \o SortedKeys(keys \ {k}, isAsk)

\* the loop of sortBook over the sorted keys
RECURSIVE TakeLevels(_, _, _, _, _)
TakeLevels(keys, book, limit, result, cumulative) ==
    IF keys = << >> \/ Len(result) >= limit THEN result
    ELSE LET size == book[Head(keys)]
         IN  IF size > 0
             THEN TakeLevels(Tail(keys), book, limit,
                             Append(result, [price |-> parseFloat(Head(keys)),
                                             size |-> size,
                                             total |-> cumulative + size]),
                             cumulative + size)
             ELSE TakeLevels(Tail(keys), book, limit, result, cumulative)

\* sortBook(book, isAsk, limit)
sortBook(book, isAsk, limit) ==
    TakeLevels(SortedKeys(DOMAIN book, isAsk), book, limit, << >>, 0)

\* getBook(depth)
getBook(e, depth) ==
    [bids |-> sortBook(e.bids, FALSE, depth), asks |-> sortBook(e.asks, TRUE, depth)]

\* scheduleRetry(): the timer handle is modelled by the time it is due
scheduleRetry(e, t) ==
    IF e.retryTimeoutId # NoTimer THEN e
    ELSE [e EXCEPT !.retryTimeoutId = t + e.snapshotBackoffMs]

\* the doubling without its cap
DoubleBackoff_NoCap(e) ==
    [e EXCEPT !.snapshotBackoffMs = e.snapshotBackoffMs * 2]

\* a failure that leaves the backoff as it is
DoubleBackoff_Keeps(e) == e

\* "this.snapshotBackoffMs = Math.min(this.snapshotBackoffMs * 2, this.maxBackoffMs)"
DoubleBackoff(e) ==
    [e EXCEPT !.snapshotBackoffMs = Min(e.snapshotBackoffMs * 2, maxBackoffMs)]


\* processEvent without the gap detection
processBranch_NoGapTest(e, event) ==
    IF e.resyncInFlight THEN "inflight"
    ELSE IF ~e.isSynced THEN (IF ~e.degraded THEN "seed" ELSE "buffer")
    ELSE IF event.u <= e.lastUpdateId THEN "stale"
    ELSE "apply"

\* processEvent without "if (event.u <= this.lastUpdateId) return"
processBranch_NoStaleDrop(e, event) ==
    IF e.resyncInFlight THEN "inflight"
    ELSE IF ~e.isSynced THEN (IF ~e.degraded THEN "seed" ELSE "buffer")
    ELSE IF event.U > e.lastUpdateId + 1 THEN "gap"
    ELSE "apply"

\* processEvent without the test of resyncInFlight
processBranch_NoInFlightTest(e, event) ==
    IF ~e.isSynced THEN (IF ~e.degraded THEN "seed" ELSE "buffer")
    ELSE IF event.u <= e.lastUpdateId THEN "stale"
    ELSE IF event.U > e.lastUpdateId + 1 THEN "gap"
    ELSE "apply"

\* the branch processEvent(event) takes in engine e
processBranch(e, event) ==
    IF e.resyncInFlight THEN "inflight"
    ELSE IF ~e.isSynced THEN (IF ~e.degraded THEN "seed" ELSE "buffer")
    ELSE IF event.u <= e.lastUpdateId THEN "stale"
    ELSE IF event.U > e.lastUpdateId + 1 THEN "gap"
    ELSE "apply"

\* processEvent taking a stale diff as the sign of a restarted stream and
\* dropping the book
processEvent_StaleDesyncs(e, event) ==
    LET e1 == IF e.isSynced /\ ~e.resyncInFlight /\ Len(e.buffer) > 0
              THEN [e EXCEPT !.buffer = << >>]
              ELSE e
        br == processBranch(e1, event)
    IN  CASE br = "inflight" ->
                [e1 EXCEPT !.buffer = addToBuffer(e1.buffer, event)]
          [] br = "seed" ->
                [e1 EXCEPT !.lastUpdateId = event.u,
                           !.bids = applyUpdate(event.b, e1.bids),
                           !.asks = applyUpdate(event.a, e1.asks),
                           !.degraded = TRUE,
                           !.isSynced = TRUE,
                           !.needsResync = TRUE]
          [] br = "buffer" ->
                [e1 EXCEPT !.buffer = addToBuffer(e1.buffer, event),
                           !.needsResync = TRUE]
          [] br = "stale" ->
                [e1 EXCEPT !.bids = EmptyMap, !.asks = EmptyMap, !.lastUpdateId = 0,
                           !.isSynced = FALSE, !.needsResync = TRUE]
          [] br = "gap" ->
                [e1 EXCEPT !.buffer = addToBuffer(e1.buffer, event),
                           !.needsResync = TRUE]
          [] br = "apply" ->
                [e1 EXCEPT !.bids = applyUpdate(event.b, e1.bids),
                           !.asks = applyUpdate(event.a, e1.asks),
                           !.lastUpdateId = event.u]

\* processEvent(event)
processEvent(e, event) ==
    LET e1 == IF e.isSynced /\ ~e.resyncInFlight /\ Len(e.buffer) > 0
              THEN [e EXCEPT !.buffer = << >>]
              ELSE e
        br == processBranch(e1, event)
    IN  CASE br = "inflight" ->
                [e1 EXCEPT !.buffer = addToBuffer(e1.buffer, event)]
          [] br = "seed" ->
                [e1 EXCEPT !.lastUpdateId = event.u,
                           !.bids = applyUpdate(event.b, e1.bids),
                           !.asks = applyUpdate(event.a, e1.asks),
                           !.degraded = TRUE,
                           !.isSynced = TRUE,
                           !.needsResync = TRUE]
          [] br = "buffer" ->
                [e1 EXCEPT !.buffer = addToBuffer(e1.buffer, event),
                           !.needsResync = TRUE]
          [] br = "stale" -> e1
          [] br = "gap" ->
                [e1 EXCEPT !.buffer = addToBuffer(e1.buffer, event),
                           !.needsResync = TRUE]
          [] br = "apply" ->
                [e1 EXCEPT !.bids = applyUpdate(event.b, e1.bids),
                           !.asks = applyUpdate(event.a, e1.asks),
                           !.lastUpdateId = event.u]

\* initSnapshot() up to its first await
initSnapshotStart(e, t) ==
    IF e.resyncInFlight THEN e
    ELSE [e EXCEPT !.resyncInFlight = TRUE, !.lastResyncAt = t]

\* a failed attempt that drops the book and the synced flag
initSnapshotFail_DropsBook(e, kind, t) ==
    LET d == scheduleRetry(DoubleBackoff(e), t)
    IN  [d EXCEPT !.bids = EmptyMap, !.asks = EmptyMap, !.isSynced = FALSE,
                  !.needsResync = TRUE,
                  !.resyncInFlight = FALSE]

\* initSnapshot() after the fetch failed: !response.ok (429/418 or another
\* status), response.json() threw, the payload is malformed, or fetch threw
initSnapshotFail(e, kind, t) ==
    LET d == scheduleRetry(DoubleBackoff(e), t)
    IN  [d EXCEPT !.needsResync = IF kind = "network" THEN TRUE ELSE @,
                  !.resyncInFlight = FALSE]

\* the snapshot commit: lastUpdateId and both sides are replaced by the payload
RECURSIVE LoadLevels(_, _)
LoadLevels(levels, book) ==
    IF levels = << >> THEN book
    ELSE LoadLevels(Tail(levels),
                    MapSet(book, Head(levels)[1], parseFloat(Head(levels)[2])))

snapshotCommit(e, data) ==
    [e EXCEPT !.lastUpdateId = data.lastUpdateId,
              !.bids = LoadLevels(data.bids, EmptyMap),
              !.asks = LoadLevels(data.asks, EmptyMap)]

\* initSnapshot() scheduling no retry after a failed replay
initSnapshotOk_NoRetry(e, data, t) ==
    LET r == replayBuffer(snapshotCommit(e, data))
        f == IF r.ok
             THEN [r.engine EXCEPT !.isSynced = TRUE, !.needsResync = FALSE,
                                   !.snapshotBackoffMs = minBackoffMs,
                                   !.degraded = FALSE]
             ELSE [r.engine EXCEPT !.isSynced = FALSE, !.needsResync = TRUE]
    IN  [f EXCEPT !.resyncInFlight = FALSE]

\* initSnapshot() after a well-formed payload arrived
initSnapshotOk(e, data, t) ==
    LET r == replayBuffer(snapshotCommit(e, data))
        f == IF r.ok
             THEN [r.engine EXCEPT !.isSynced = TRUE, !.needsResync = FALSE,
                                   !.snapshotBackoffMs = minBackoffMs,
                                   !.degraded = FALSE]
             ELSE scheduleRetry([r.engine EXCEPT !.isSynced = FALSE,
                                                 !.needsResync = TRUE], t)
    IN  [f EXCEPT !.resyncInFlight = FALSE]

-----------------------------------------------------------------------------
(* History of applied diffs (not program state).  An applied diff is one    *)
(* applied by the normal flow of processEvent ("live") or by replayBuffer   *)
(* ("replay"); the diff that seeds a book in degraded mode is not recorded. *)
(* The field relation tells how the book left by the last stream or fetch   *)
(* handler relates to the book it is compared with: after a frame that was  *)
(* delivered twice, the book after its first delivery ("dupSame",           *)
(* "dupDiffers"); after a snapshot commit whose buffered diffs all had      *)
(* u <= snapshot.lastUpdateId, the snapshot ("snapKept", "snapChanged");    *)
(* after a commit whose replay of other buffered diffs succeeded, the       *)
(* snapshot with the diffs from the straddling one on applied in the order  *)
(* of u ("replayExact", or "replayReordered" when the buffer held them in   *)
(* another order, and "replayOff").  The field noStart tells what the last  *)
(* snapshot commit over a non-empty buffer without a diff straddling        *)
(* snapshot.lastUpdateId + 1 left: a cleared buffer, needsResync, an        *)
(* unsynced engine and a pending retry ("failedBehind" when every buffered  *)
(* diff had u <= snapshot.lastUpdateId, else "failedAhead"), or not ("off").*)
(* The field fused tells that a snapshot commit of the engine has been      *)
(* followed by a successful replay; the field seeded tells whether the last *)
(* stream or fetch handler seeded the book from a diff, before any such     *)
(* commit ("first") or after one ("afterFused").                            *)

NewHist == [lastU |-> 0, count |-> 0, commitSince |-> FALSE,
            increasing |-> TRUE, aboveLast |-> TRUE, contiguous |-> TRUE,
            lastKind |-> "none", relation |-> "none", noStart |-> "none",
            fused |-> FALSE, seeded |-> "none"]

\* what the branch br of processEvent did to the book of a history h
SeedKind(h, br) ==
    IF br = "seed" THEN IF h.fused THEN "afterFused" ELSE "first" ELSE "none"

\* the book of engine e
Book(e) == [bids |-> e.bids, asks |-> e.asks, lastUpdateId |-> e.lastUpdateId]

\* the diffs of a set applied to a book in the order of their final ids
RECURSIVE ApplyInOrderOfU(_, _)
ApplyInOrderOfU(diffs, book) ==
    IF diffs = {} THEN book
    ELSE LET d == CHOOSE x \in diffs : \A y \in diffs : x.u <= y.u
         IN  ApplyInOrderOfU(diffs \ {d},
                [bids |-> applyUpdate(d.b, book.bids),
                 asks |-> applyUpdate(d.a, book.asks),
                 lastUpdateId |-> d.u])

\* the buffered diffs a replay over snapshot id S is to apply: the diff of
\* smallest u with U <= S + 1 <= u, and every buffered diff after it in
\* the order of u
DiffsToReplay(buf, S) ==
    LET all    == {buf[i] : i \in 1..Len(buf)}
        starts == {x \in all : x.U <= S + 1 /\ S + 1 <= x.u}
    IN  IF starts = {} THEN {}
        ELSE LET e0 == CHOOSE x \in starts : \A y \in starts : x.u <= y.u
             IN  {x \in all : x.u >= e0.u}

\* one applied diff d = [U, u, prev]; prev is lastUpdateId when it was applied
RecordOne(h, d, kind) ==
    [lastU |-> d.u,
     count |-> Min(h.count + 1, 2),
     commitSince |-> FALSE,
     increasing |-> h.increasing /\ (h.count = 0 \/ d.u > h.lastU),
     aboveLast |-> h.aboveLast /\ d.u > d.prev,
     contiguous |-> h.contiguous /\ (h.count = 0 \/ h.commitSince \/ d.U = h.lastU + 1),
     lastKind |-> kind,
     relation |-> h.relation,
     noStart |-> h.noStart,
     fused |-> h.fused,
     seeded |-> h.seeded]

RECURSIVE RecordAll(_, _, _)
RecordAll(h, ds, kind) ==
    IF ds = << >> THEN h ELSE RecordAll(RecordOne(h, Head(ds), kind), Tail(ds), kind)

-----------------------------------------------------------------------------
(* Actions of the hook: stream, scheduler tick, retry timer, fetch completion *)

Events(lo, maxId, B, A) ==
    {[U |-> U, u |-> u, b |-> b, a |-> a] : U \in (lo + 1)..maxId, u \in (lo + 1)..maxId,
                                            b \in B, a \in A}

\* ws.onmessage for a depth frame of symbol s.  The stream delivers diffs in
\* order (U <= u, and U above the previous delivered u); frames may be lost.
DeliverDiff(s, maxId, B, A) ==
    /\ s \in DOMAIN trackers
    /\ \E event \in Events(streamPos[s], maxId, B, A) :
         /\ event.U <= event.u
         /\ LET e  == trackers[s]
                br == processBranch(e, event)
                d  == [U |-> event.U, u |-> event.u, prev |-> e.lastUpdateId]
            IN  /\ trackers' = [trackers EXCEPT ![s] = processEvent(e, event)]
                /\ hist' = [hist EXCEPT ![s] =
                              [(IF br = "apply" THEN RecordOne(@, d, "live") ELSE @)
                                  EXCEPT !.relation = "none", !.noStart = "none",
                                         !.seeded = SeedKind(hist[s], br)]]
         /\ streamPos' = [streamPos EXCEPT ![s] = event.u]
    /\ UNCHANGED <<activeSymbols, snapshotQueueRef, snapshotInProgressRef, fetchBy, wire, now>>
    /\ UNCHANGED <<proxyVars, restVars>>

\* ws.onmessage runs twice in a row for the same depth frame of symbol s, a
\* frame that processEvent applies to the book at its first delivery
DeliverDiffTwice(s, maxId, B, A) ==
    /\ s \in DOMAIN trackers
    /\ \E event \in Events(streamPos[s], maxId, B, A) :
         /\ event.U <= event.u
         /\ processBranch(trackers[s], event) \in {"apply", "seed"}
         /\ LET e     == trackers[s]
                once  == processEvent(e, event)
                twice == processEvent(once, event)
                d1    == [U |-> event.U, u |-> event.u, prev |-> e.lastUpdateId]
                d2    == [U |-> event.U, u |-> event.u, prev |-> once.lastUpdateId]
                h1    == IF processBranch(e, event) = "apply"
                         THEN RecordOne(hist[s], d1, "live") ELSE hist[s]
                h2    == IF processBranch(once, event) = "apply"
                         THEN RecordOne(h1, d2, "live") ELSE h1
            IN  /\ trackers' = [trackers EXCEPT ![s] = twice]
                /\ hist' = [hist EXCEPT ![s] =
                              [h2 EXCEPT !.relation = IF Book(twice) = Book(once)
                                                      THEN "dupSame" ELSE "dupDiffers",
                                         !.noStart = "none",
                                         !.seeded =
                                            SeedKind(hist[s], processBranch(e, event))]]
         /\ streamPos' = [streamPos EXCEPT ![s] = event.u]
    /\ UNCHANGED <<activeSymbols, snapshotQueueRef, snapshotInProgressRef, fetchBy, wire, now>>
    /\ UNCHANGED <<proxyVars, restVars>>

\* ws.onmessage for the depth frame of symbol s that follows the last one
\* without a gap and changes one id
DeliverNextDiff(s, maxId, B, A) ==
    /\ s \in DOMAIN trackers
    /\ streamPos[s] < maxId
    /\ \E event \in {[U |-> streamPos[s] + 1, u |-> streamPos[s] + 1,
                       b |-> b, a |-> a] : b \in B, a \in A} :
       LET e  == trackers[s]
           br == processBranch(e, event)
           d  == [U |-> event.U, u |-> event.u, prev |-> e.lastUpdateId]
       IN  /\ trackers' = [trackers EXCEPT ![s] = processEvent(e, event)]
           /\ hist' = [hist EXCEPT ![s] =
                         [(IF br = "apply" THEN RecordOne(@, d, "live") ELSE @)
                             EXCEPT !.relation = "none", !.noStart = "none",
                                    !.seeded = SeedKind(hist[s], br)]]
           /\ streamPos' = [streamPos EXCEPT ![s] = event.u]
    /\ UNCHANGED <<activeSymbols, snapshotQueueRef, snapshotInProgressRef, fetchBy, wire, now>>
    /\ UNCHANGED <<proxyVars, restVars>>

\* the exchange sends the next diff of symbol s: its first id follows the final
\* id of the diff sent before it
ExchangeSends(s, maxId, B, A) ==
    /\ s \in DOMAIN trackers
    /\ \E event \in Events(streamPos[s], maxId, B, A) :
         /\ event.U = streamPos[s] + 1
         /\ event.U <= event.u
         /\ wire' = [wire EXCEPT ![s] = @ \cup {event}]
         /\ streamPos' = [streamPos EXCEPT ![s] = event.u]
    /\ UNCHANGED <<activeSymbols, trackers, snapshotQueueRef, snapshotInProgressRef,
                   fetchBy, now, hist>>
    /\ UNCHANGED <<proxyVars, restVars>>

\* ws.onmessage for a depth frame of symbol s that was delivered before and
\* that the engine holds once in its buffer
DeliverBufferedAgain(s) ==
    /\ s \in DOMAIN trackers
    /\ \E i \in 1..Len(trackers[s].buffer) :
         LET e  == trackers[s]
             event == e.buffer[i]
             br == processBranch(e, event)
             d  == [U |-> event.U, u |-> event.u, prev |-> e.lastUpdateId]
         IN  /\ Cardinality({j \in 1..Len(e.buffer) : e.buffer[j] = event}) = 1
             /\ trackers' = [trackers EXCEPT ![s] = processEvent(e, event)]
             /\ hist' = [hist EXCEPT ![s] =
                           [(IF br = "apply" THEN RecordOne(@, d, "live") ELSE @)
                               EXCEPT !.relation = "none", !.noStart = "none",
                                      !.seeded = SeedKind(hist[s], br)]]
    /\ UNCHANGED <<activeSymbols, snapshotQueueRef, snapshotInProgressRef, fetchBy,
                   streamPos, wire, now>>
    /\ UNCHANGED <<proxyVars, restVars>>

\* ws.onmessage for a depth frame of symbol s that is under way; frames
\* overtake each other
DeliverFromWire(s) ==
    /\ s \in DOMAIN trackers
    /\ \E event \in wire[s] :
         /\ LET e  == trackers[s]
                br == processBranch(e, event)
                d  == [U |-> event.U, u |-> event.u, prev |-> e.lastUpdateId]
            IN  /\ trackers' = [trackers EXCEPT ![s] = processEvent(e, event)]
                /\ hist' = [hist EXCEPT ![s] =
                              [(IF br = "apply" THEN RecordOne(@, d, "live") ELSE @)
                                  EXCEPT !.relation = "none", !.noStart = "none",
                                         !.seeded = SeedKind(hist[s], br)]]
         /\ wire' = [wire EXCEPT ![s] = @ \ {event}]
    /\ UNCHANGED <<activeSymbols, snapshotQueueRef, snapshotInProgressRef, fetchBy,
                   streamPos, now>>
    /\ UNCHANGED <<proxyVars, restVars>>

\* an enqueue loop that looks at the first symbol only
Enqueue_FirstOnly(syms, q) ==
    IF syms = << >> THEN q
    ELSE LET sym == Head(syms)
             e == trackers[sym]
             inQ == \E i \in 1..Len(q) : q[i] = sym
         IN  IF /\ e.needsResync /\ ~e.resyncInFlight
                /\ now - e.lastResyncAt >= e.snapshotBackoffMs
                /\ ~inQ
             THEN Append(q, sym) ELSE q

\* the enqueue loop of the interval callback, over the symbols in array order
RECURSIVE Enqueue(_, _)
Enqueue(syms, q) ==
    IF syms = << >> THEN q
    ELSE LET sym == Head(syms)
             e == trackers[sym]
             inQ == \E i \in 1..Len(q) : q[i] = sym
         IN  Enqueue(Tail(syms),
                     IF /\ e.needsResync /\ ~e.resyncInFlight
                        /\ now - e.lastResyncAt >= e.snapshotBackoffMs
                        /\ ~inQ
                     THEN Append(q, sym) ELSE q)

\* setInterval callback: the snapshot scheduler
SchedulerTick ==
    LET q == Enqueue(activeSymbols, snapshotQueueRef)
    IN  /\ IF ~snapshotInProgressRef /\ Len(q) > 0
           THEN LET nextSym == Head(q)
                    e == trackers[nextSym]
                IN  /\ snapshotQueueRef' = Tail(q)
                    /\ trackers' = [trackers EXCEPT ![nextSym] = initSnapshotStart(e, now)]
                    \* an engine already in flight returns at once and the
                    \* promise's finally() resets the flag in the same turn
                    /\ snapshotInProgressRef' = ~e.resyncInFlight
                    /\ fetchBy' = IF e.resyncInFlight THEN fetchBy
                                  ELSE [fetchBy EXCEPT ![nextSym] = "scheduler"]
           ELSE /\ snapshotQueueRef' = q
                /\ UNCHANGED <<trackers, snapshotInProgressRef, fetchBy>>
        /\ UNCHANGED <<activeSymbols, streamPos, wire, now, hist>>
        /\ UNCHANGED <<proxyVars, restVars>>

\* the setTimeout callback of scheduleRetry
RetryTimer(s) ==
    /\ s \in DOMAIN trackers
    /\ trackers[s].retryTimeoutId # NoTimer
    /\ now >= trackers[s].retryTimeoutId
    /\ LET e == [trackers[s] EXCEPT !.retryTimeoutId = NoTimer]
       IN  /\ trackers' = [trackers EXCEPT ![s] = initSnapshotStart(e, now)]
           /\ fetchBy' = IF e.resyncInFlight THEN fetchBy
                         ELSE [fetchBy EXCEPT ![s] = "timer"]
    /\ UNCHANGED <<activeSymbols, snapshotQueueRef, snapshotInProgressRef, streamPos, wire, now, hist>>
    /\ UNCHANGED <<proxyVars, restVars>>

FailKinds == {"rateLimited", "httpError", "jsonError", "invalid", "network"}

\* the pending fetch of s ends without a usable payload
SnapshotFails(s) ==
    /\ s \in DOMAIN trackers
    /\ fetchBy[s] # "none"
    /\ \E kind \in FailKinds :
         trackers' = [trackers EXCEPT ![s] = initSnapshotFail(@, kind, now)]
    /\ snapshotInProgressRef' = IF fetchBy[s] = "scheduler" THEN FALSE
                                ELSE snapshotInProgressRef
    /\ fetchBy' = [fetchBy EXCEPT ![s] = "none"]
    /\ UNCHANGED <<activeSymbols, snapshotQueueRef, streamPos, wire, now, hist>>
    /\ UNCHANGED <<proxyVars, restVars>>

Snapshots(maxId, B, A) ==
    {[lastUpdateId |-> id, bids |-> b, asks |-> a] : id \in 1..maxId, b \in B, a \in A}

\* the pending fetch of s ends with a well-formed depth payload
SnapshotArrives(s, maxId, B, A) ==
    /\ s \in DOMAIN trackers
    /\ fetchBy[s] # "none"
    /\ \E data \in Snapshots(maxId, B, A) :
         LET e == trackers[s]
             r == replayBuffer(snapshotCommit(e, data))
             covered == \A i \in 1..Len(e.buffer) : e.buffer[i].u <= data.lastUpdateId
             after == initSnapshotOk(e, data, now)
             straddling == {i \in 1..Len(e.buffer) :
                               /\ e.buffer[i].U <= data.lastUpdateId + 1
                               /\ data.lastUpdateId + 1 <= e.buffer[i].u}
             reordered == \E i, j \in 1..Len(e.buffer) :
                             i < j /\ e.buffer[i].u > e.buffer[j].u
             expected == ApplyInOrderOfU(DiffsToReplay(e.buffer, data.lastUpdateId),
                                         Book(snapshotCommit(e, data)))
         IN  /\ trackers' = [trackers EXCEPT ![s] = after]
             /\ hist' = [hist EXCEPT ![s] =
                           [RecordAll([@ EXCEPT !.commitSince = TRUE], r.applied, "replay")
                               EXCEPT !.relation =
                                  IF covered
                                  THEN IF Book(trackers'[s]) = Book(snapshotCommit(e, data))
                                       THEN "snapKept" ELSE "snapChanged"
                                  ELSE IF r.ok
                                  THEN IF /\ Book(trackers'[s]) = expected
                                          /\ trackers'[s].buffer = << >>
                                          /\ trackers'[s].isSynced
                                          /\ ~trackers'[s].needsResync
                                          /\ ~trackers'[s].degraded
                                       THEN IF reordered THEN "replayReordered"
                                            ELSE "replayExact"
                                       ELSE "replayOff"
                                  ELSE "none",
                                 !.noStart =
                                  IF Len(e.buffer) = 0 \/ straddling # {} THEN "none"
                                  ELSE IF /\ trackers'[s].buffer = << >>
                                          /\ trackers'[s].needsResync
                                          /\ ~trackers'[s].isSynced
                                          /\ trackers'[s].retryTimeoutId # NoTimer
                                       THEN IF covered THEN "failedBehind"
                                            ELSE "failedAhead"
                                       ELSE "off",
                                 !.fused = @ \/ r.ok,
                                 !.seeded = "none"]]
    /\ snapshotInProgressRef' = IF fetchBy[s] = "scheduler" THEN FALSE
                                ELSE snapshotInProgressRef
    /\ fetchBy' = [fetchBy EXCEPT ![s] = "none"]
    /\ UNCHANGED <<activeSymbols, snapshotQueueRef, streamPos, wire, now>>
    /\ UNCHANGED <<proxyVars, restVars>>

\* time passes
AdvanceClock(steps) ==
    /\ now + ClockStep <= StartTime + steps * ClockStep
    /\ now' = now + ClockStep
    /\ UNCHANGED <<activeSymbols, trackers, snapshotQueueRef, snapshotInProgressRef,
                   fetchBy, streamPos, wire, hist>>
    /\ UNCHANGED <<proxyVars, restVars>>


-----------------------------------------------------------------------------
(* server/index.ts: the WebSocket proxy *)

\* history: the last handler to run handled no upstream frame
NoForward == [frame |-> [kind |-> "none", s |-> ""], to |-> {}]

\* history: the last handler to run made no setTimeout(connectToBinance, ...) call
NoDelay == [n0 |-> 0, delay |-> 0, jitter |-> 0]

\* bounds: client sockets, upstream sockets not yet closed and collected,
\* pending reconnect timers, and the attempt counter
Clients == {"c1", "c2"}
MaxSockets == 2
MaxTimers == 1
MaxAttempts == 5

Symbols == {"BTCUSDT", "ETHUSDT"}
NoSocket == 0
MAX_RECONNECT_DELAY == 30000

\* an element of msg.symbols that is not a string
NotAString == "<number>"
\* what clients write in the query string and in msg.symbols
RawItems == {"btcusdt", "ETHUSDT", NotAString}

\* String.prototype.toUpperCase on the symbol strings clients send
toUpperCase(str) == CASE str = "btcusdt" -> "BTCUSDT"
                      [] str = "ethusdt" -> "ETHUSDT"
                      [] OTHER -> str

\* connectToBinance that leaves the existing connection as it is
CloseSocket_Noop(socks, k) == socks

\* ws.close(): a socket that is connecting or open goes to CLOSING, its
\* 'close' event comes later; closing or closed sockets are left alone
CloseSocket(socks, k) ==
    IF socks[k].readyState \in {"CONNECTING", "OPEN"}
    THEN [socks EXCEPT ![k].readyState = "CLOSING"]
    ELSE socks

\* closed sockets nobody references are garbage
Collect(socks, ref) ==
    [k \in {j \in DOMAIN socks : socks[j].readyState # "CLOSED" \/ j = ref} |-> socks[k]]

FreeSocketIds(socks) == (1..MaxSockets) \ DOMAIN socks

\* connectToBinance(), run with the client registry cs; closedToResubscribe
\* of a socket is history: connectToBinance closed it to open a socket for
\* a changed symbol set
connectToBinance(cs) ==
    LET allSymbols == UNION {cs[c] : c \in DOMAIN cs}
        symbolsChanged ==
            \/ Cardinality(allSymbols) # Cardinality(currentStreamSymbols)
            \/ \E sym \in allSymbols : sym \notin currentStreamSymbols
        closed == IF binanceWs # NoSocket THEN CloseSocket(sockets, binanceWs) ELSE sockets
    IN  IF allSymbols = {}
        THEN /\ sockets' = Collect(closed, NoSocket)
             /\ binanceWs' = NoSocket
             /\ binanceWsState' = "disconnected"
             /\ currentStreamSymbols' = {}
        ELSE IF /\ ~symbolsChanged
                /\ binanceWs # NoSocket
                /\ sockets[binanceWs].readyState = "OPEN"
        THEN UNCHANGED <<sockets, binanceWs, binanceWsState, currentStreamSymbols>>
        ELSE \E k \in FreeSocketIds(Collect(closed, NoSocket)) :
             /\ \A j \in FreeSocketIds(Collect(closed, NoSocket)) : k <= j
             /\ sockets' = [j \in DOMAIN Collect(closed, NoSocket) \cup {k} |->
                              IF j = k
                              THEN [readyState |-> "CONNECTING", closedToResubscribe |-> FALSE]
                              ELSE IF j = binanceWs
                              THEN [Collect(closed, NoSocket)[j] EXCEPT
                                      !.closedToResubscribe = symbolsChanged]
                              ELSE Collect(closed, NoSocket)[j]]
             /\ binanceWs' = k
             /\ binanceWsState' = "connecting"
             /\ currentStreamSymbols' = allSymbols

\* new Set(symbolsParam.split(',').map(s => s.trim().toUpperCase()).filter(...))
RECURSIVE ParseSymbols(_)
ParseSymbols(items) ==
    IF items = << >> THEN {}
    ELSE (IF Head(items) = "" THEN {} ELSE {toUpperCase(Head(items))})
         \cup ParseSymbols(Tail(items))

QueryParams == {<< >>, <<"btcusdt">>, <<"ETHUSDT">>, <<"btcusdt", "">>, <<"BTCUSDT", "ethusdt">>}

\* wss.on('connection'); after server.close() no connection is accepted
ClientConnect(c) ==
    /\ c \notin wsClients
    /\ ~shuttingDown
    /\ \E param \in QueryParams :
         LET symbols == ParseSymbols(param)
             cs == [d \in DOMAIN clientSymbols \cup {c} |->
                      IF d = c THEN symbols ELSE clientSymbols[d]]
         IN  /\ wsClients' = wsClients \cup {c}
             /\ clientSymbols' = cs
             /\ clientReady' = [d \in DOMAIN clientReady \cup {c} |->
                                  IF d = c THEN "OPEN" ELSE clientReady[d]]
             /\ connectToBinance(cs)
    /\ fwd' = NoForward
    /\ timerDelay' = NoDelay
    /\ UNCHANGED <<reconnectAttempts, reconnectTimers>>
    /\ UNCHANGED <<engineVars, restVars, shuttingDown>>

\* msg.symbols.forEach(s => clientSubs.add / delete (s.toUpperCase())):
\* the set after the loop and whether the loop ran to its end (toUpperCase
\* of a non-string throws and leaves the loop)
RECURSIVE ForEachSymbol(_, _, _)
ForEachSymbol(items, subs, add) ==
    IF items = << >> THEN [subs |-> subs, done |-> TRUE]
    ELSE IF Head(items) = NotAString THEN [subs |-> subs, done |-> FALSE]
    ELSE ForEachSymbol(Tail(items),
                       IF add THEN subs \cup {toUpperCase(Head(items))}
                       ELSE subs \ {toUpperCase(Head(items))},
                       add)

\* control messages: text that is not JSON, or {type, symbols}
SymbolLists == {<<x>> : x \in RawItems} \cup {<<x, y>> : x \in RawItems, y \in RawItems}
ControlMessages ==
    {[json |-> FALSE, type |-> "", isArray |-> FALSE, symbols |-> << >>]}
    \cup {[json |-> TRUE, type |-> "ping", isArray |-> FALSE, symbols |-> << >>]}
    \cup {[json |-> TRUE, type |-> t, isArray |-> FALSE, symbols |-> << >>] :
              t \in {"subscribe", "unsubscribe"}}
    \cup {[json |-> TRUE, type |-> t, isArray |-> TRUE, symbols |-> l] :
              t \in {"subscribe", "unsubscribe"}, l \in SymbolLists}

\* ws.on('message') of client c
ClientMessage(c) ==
    /\ c \in wsClients
    /\ clientReady[c] = "OPEN"
    /\ \E msg \in ControlMessages :
         IF msg.json /\ msg.type \in {"subscribe", "unsubscribe"} /\ msg.isArray
         THEN LET r  == ForEachSymbol(msg.symbols, clientSymbols[c], msg.type = "subscribe")
                  cs == [clientSymbols EXCEPT ![c] = r.subs]
              IN  /\ clientSymbols' = cs
                  /\ IF r.done
                     THEN connectToBinance(cs)
                     ELSE UNCHANGED <<sockets, binanceWs, binanceWsState,
                                      currentStreamSymbols>>
         ELSE UNCHANGED <<clientSymbols, sockets, binanceWs, binanceWsState,
                          currentStreamSymbols>>
    /\ fwd' = NoForward
    /\ timerDelay' = NoDelay
    /\ UNCHANGED <<wsClients, clientReady, reconnectAttempts, reconnectTimers>>
    /\ UNCHANGED <<engineVars, restVars, shuttingDown>>

\* the closing handshake of client c starts: readyState leaves OPEN
ClientClosing(c) ==
    /\ c \in wsClients
    /\ clientReady[c] = "OPEN"
    /\ clientReady' = [clientReady EXCEPT ![c] = "CLOSING"]
    /\ fwd' = NoForward
    /\ UNCHANGED <<wsClients, clientSymbols, currentStreamSymbols, binanceWs, binanceWsState,
                   reconnectAttempts, sockets, reconnectTimers>>
    /\ timerDelay' = NoDelay
    /\ UNCHANGED <<engineVars, restVars, shuttingDown>>

\* ws.on('close') of client c
ClientClose(c) ==
    /\ c \in wsClients
    /\ LET cs == [d \in DOMAIN clientSymbols \ {c} |-> clientSymbols[d]]
       IN  /\ wsClients' = wsClients \ {c}
           /\ clientSymbols' = cs
           /\ clientReady' = [d \in DOMAIN clientReady \ {c} |-> clientReady[d]]
           /\ connectToBinance(cs)
    /\ fwd' = NoForward
    /\ timerDelay' = NoDelay
    /\ UNCHANGED <<reconnectAttempts, reconnectTimers>>
    /\ UNCHANGED <<engineVars, restVars, shuttingDown>>

\* binanceWs.on('open') of upstream socket k
UpstreamOpen(k) ==
    /\ k \in DOMAIN sockets
    /\ sockets[k].readyState = "CONNECTING"
    /\ sockets' = [sockets EXCEPT ![k].readyState = "OPEN"]
    /\ binanceWsState' = "connected"
    /\ reconnectAttempts' = 0
    /\ UNCHANGED <<wsClients, clientSymbols, clientReady, currentStreamSymbols, binanceWs,
                   reconnectTimers>>
    /\ timerDelay' = NoDelay
    /\ fwd' = NoForward
    /\ UNCHANGED <<engineVars, restVars, shuttingDown>>

\* upstream frames: a stream event of symbol s, text that is not JSON, and
\* JSON without data.s
Frames ==
    {[kind |-> "data", s |-> sym] : sym \in Symbols}
    \cup {[kind |-> "notJson", s |-> ""], [kind |-> "noSymbol", s |-> ""]}

\* the forEach body without the subscription test
Forwards_NoFilter(c, frame) ==
    /\ clientReady[c] = "OPEN"
    /\ frame.kind \in {"notJson", "data"}

\* the body of wsClients.forEach in binanceWs.on('message'): is the frame
\* sent to client c
Forwards(c, frame) ==
    /\ clientReady[c] = "OPEN"
    /\ IF frame.kind = "notJson"
       THEN TRUE                      \* JSON.parse throws: "forward anyway"
       ELSE /\ c \in DOMAIN clientSymbols
            /\ frame.kind = "data"    \* symbol is truthy
            /\ frame.s \in clientSymbols[c]

\* binanceWs.on('message') of upstream socket k
UpstreamMessage(k) ==
    /\ k \in DOMAIN sockets
    /\ sockets[k].readyState = "OPEN"
    /\ \E frame \in Frames :
         fwd' = [frame |-> frame, to |-> {c \in wsClients : Forwards(c, frame)}]
    /\ UNCHANGED <<wsClients, clientSymbols, clientReady, currentStreamSymbols, binanceWs,
                   binanceWsState, reconnectAttempts, sockets, reconnectTimers>>
    /\ timerDelay' = NoDelay
    /\ UNCHANGED <<engineVars, restVars, shuttingDown>>

\* Math.pow(2, n)
RECURSIVE Pow2(_)
Pow2(n) == IF n <= 0 THEN 1 ELSE 2 * Pow2(n - 1)

\* the delay computed from the attempt counter one close event earlier
ReconnectDelay_BeforeIncrement(n) == Min(1000 * Pow2(n - 1), MAX_RECONNECT_DELAY)

\* "Math.min(1000 * Math.pow(2, reconnectAttempts), MAX_RECONNECT_DELAY)"
ReconnectDelay(n) == Min(1000 * Pow2(n), MAX_RECONNECT_DELAY)

\* Math.random() * 1000, a value in [0, 1000)
Jitters == {0, 999}

\* binanceWs.on('close') of upstream socket k: the exchange or the network
\* ended it, or the closing handshake started by close() completed
UpstreamClose(k) ==
    /\ k \in DOMAIN sockets
    /\ sockets[k].readyState # "CLOSED"
    /\ sockets' = Collect([sockets EXCEPT ![k].readyState = "CLOSED"], binanceWs)
    /\ binanceWsState' = "disconnected"
    /\ IF Cardinality(wsClients) > 0
       THEN /\ reconnectAttempts < MaxAttempts
            /\ reconnectTimers < MaxTimers
            /\ reconnectAttempts' = reconnectAttempts + 1
            /\ reconnectTimers' = reconnectTimers + 1
            /\ \E jitter \in Jitters :
                  \* n0 is the counter as the close event found it
                  timerDelay' = [n0 |-> reconnectAttempts,
                                 delay |-> ReconnectDelay(reconnectAttempts'),
                                 jitter |-> jitter]
       ELSE /\ timerDelay' = NoDelay
            /\ UNCHANGED <<reconnectAttempts, reconnectTimers>>
    /\ fwd' = NoForward
    /\ UNCHANGED <<wsClients, clientSymbols, clientReady, currentStreamSymbols, binanceWs>>
    /\ UNCHANGED <<engineVars, restVars, shuttingDown>>

\* a setTimeout(connectToBinance, delay + jitter) comes due
ReconnectTimer ==
    /\ reconnectTimers > 0
    /\ reconnectTimers' = reconnectTimers - 1
    /\ timerDelay' = NoDelay
    /\ connectToBinance(clientSymbols)
    /\ fwd' = NoForward
    /\ UNCHANGED <<wsClients, clientSymbols, clientReady, reconnectAttempts>>
    /\ UNCHANGED <<engineVars, restVars, shuttingDown>>

\* process.on('SIGINT') / process.on('SIGTERM'): close() on the referenced
\* upstream socket and on every client, then server.close()
Shutdown ==
    /\ ~shuttingDown
    /\ shuttingDown' = TRUE
    /\ sockets' = IF binanceWs # NoSocket THEN CloseSocket(sockets, binanceWs) ELSE sockets
    /\ clientReady' = [c \in DOMAIN clientReady |-> "CLOSING"]
    /\ fwd' = NoForward
    /\ timerDelay' = NoDelay
    /\ UNCHANGED <<wsClients, clientSymbols, currentStreamSymbols, binanceWs, binanceWsState,
                   reconnectAttempts, reconnectTimers>>
    /\ UNCHANGED <<engineVars, restVars>>

\* "server.close(() => process.exit(0))": the callback runs once the last
\* connection of the server has ended
Exited == shuttingDown /\ wsClients = {}

-----------------------------------------------------------------------------
(* server/index.ts: the REST depth endpoint *)

MIN_BACKOFF_MS == 2000
MAX_BACKOFF_MS == 30000
RATE_LIMIT_INTERVAL_MS == 500
CACHE_TTL_MS == 5000

\* handlers that can await their fetch at one time
Handlers == {1, 2}
\* bounds: the largest snapshot id the exchange returns, and the clock
\* advances explored
MaxRestId == 2
MaxRestClockSteps == 3
\* the clock is observed every RestClockStep ms
RestClockStep == MIN_BACKOFF_MS
\* the coarse clock of SpecBackoff: the backoff after three doublings
LongClockStep == 8 * MIN_BACKOFF_MS
MaxLongClockSteps == 2

Max(a, b) == IF a > b THEN a ELSE b

\* depthCache.get(symbol) when the map has no entry
Undefined == [lastUpdateId |-> 0, bids |-> << >>, asks |-> << >>, cachedAt |-> 0]

\* the symbol of the path and the limit of the query string, as clients write them
PathSymbols == {"btcusdt"}
LimitParams == {"", "0", "1"}

\* parseInt on the limit strings; parseInt(undefined) is NaN
parseInt(q) == CASE q = ""  -> [nan |-> TRUE,  val |-> 0]
                 [] q = "0" -> [nan |-> FALSE, val |-> 0]
                 [] q = "1" -> [nan |-> FALSE, val |-> 1]

\* "Math.min(parseInt(req.query.limit) || 1000, 1000)": NaN and 0 are falsy
LimitOf(q) ==
    LET n == parseInt(q)
    IN  Min(IF n.nan \/ n.val = 0 THEN 1000 ELSE n.val, 1000)

\* Array.prototype.slice(0, limit)
Slice(list, limit) ==
    IF limit >= 0 THEN SubSeq(list, 1, Min(limit, Len(list)))
    ELSE SubSeq(list, 1, Max(Len(list) + limit, 0))

\* bodies the exchange returns with status 200
RestLevelLists == {<<<<"10", "1">>, <<"11", "1">>>>}
DepthPayloads(maxId) ==
    {[lastUpdateId |-> id, bids |-> b, asks |-> a] :
        id \in 1..maxId, b \in RestLevelLists, a \in RestLevelLists}

\* how an upstream depth fetch can end
FetchOutcomes(maxId) ==
    {[kind |-> "status", status |-> st, data |-> Undefined] : st \in {429, 418, 500}}
    \cup {[kind |-> k, status |-> 200, data |-> Undefined] : k \in {"malformed", "network"}}
    \cup {[kind |-> "ok", status |-> 200, data |-> d] : d \in DepthPayloads(maxId)}

\* "rateLimitState.get(symbol) || { lastRequest: 0, backoffMs: MIN_BACKOFF_MS }"
GetState(rl, symbol) ==
    IF symbol \in DOMAIN rl THEN rl[symbol]
    ELSE [lastRequest |-> 0, backoffMs |-> MIN_BACKOFF_MS]

\* Map.set
SetEntry(m, k, v) == [x \in (DOMAIN m) \cup {k} |-> IF x = k THEN v ELSE m[x]]

\* fetchBinanceDepth(symbol, limit) once the fetch ended with outcome at time
\* t: the rate-limit map, the cache and the value returned (Undefined for null)
fetchBinanceDepth(rl, cache, symbol, outcome, t) ==
    IF outcome.kind = "status" /\ outcome.status \in {429, 418}
    THEN [rl |-> SetEntry(rl, symbol,
                    [GetState(rl, symbol) EXCEPT
                        !.backoffMs = Min(@ * 2, MAX_BACKOFF_MS)]),
          cache |-> cache, ret |-> Undefined]
    ELSE IF outcome.kind # "ok"
    THEN [rl |-> rl, cache |-> cache, ret |-> Undefined]
    ELSE LET cached == [lastUpdateId |-> outcome.data.lastUpdateId,
                        bids |-> outcome.data.bids, asks |-> outcome.data.asks,
                        cachedAt |-> t]
         IN  [rl |-> SetEntry(rl, symbol, [lastRequest |-> t, backoffMs |-> MIN_BACKOFF_MS]),
              cache |-> SetEntry(cache, symbol, cached), ret |-> cached]

\* history: no response was sent yet, no fetch ended yet
NoResponse == [status |-> 0, source |-> "", lastUpdateId |-> 0, bids |-> << >>,
               asks |-> << >>, cachedAt |-> 0, retryAfter |-> 0,
               limitParam |-> "", fetched |-> FALSE, cacheHeld |-> FALSE]
NoFetch == [kind |-> "none", at |-> 0, backoffMs |-> 0]

\* res.json({lastUpdateId, bids: slice, asks: slice, cachedAt, source})
DepthResponse(snapshot, limit, source) ==
    [status |-> 200, source |-> source, lastUpdateId |-> snapshot.lastUpdateId,
     bids |-> Slice(snapshot.bids, limit), asks |-> Slice(snapshot.asks, limit),
     cachedAt |-> snapshot.cachedAt, retryAfter |-> 0]

\* res.status(503).json({error, symbol, retryAfter})
UnavailableResponse(retryAfter) ==
    [status |-> 503, source |-> "", lastUpdateId |-> 0, bids |-> << >>, asks |-> << >>,
     cachedAt |-> 0, retryAfter |-> retryAfter]

\* the response with what the history keeps about its request
Sent(answer, q, fetched, cacheHeld) ==
    [k \in DOMAIN NoResponse |->
        IF k = "limitParam" THEN q
        ELSE IF k = "fetched" THEN fetched
        ELSE IF k = "cacheHeld" THEN cacheHeld
        ELSE answer[k]]

\* the throttle test with the cache window of CACHE_TTL_MS
ServeFromCache_FreshOnly(state, cached, t) ==
    /\ \/ t - state.lastRequest < RATE_LIMIT_INTERVAL_MS
       \/ t - state.lastRequest < state.backoffMs
    /\ cached # Undefined
    /\ t - cached.cachedAt < CACHE_TTL_MS

\* "if (timeSinceLastRequest < RATE_LIMIT_INTERVAL_MS || timeSinceLastRequest <
\* state.backoffMs) if (cached && cacheAge < CACHE_TTL_MS * 2)"
ServeFromCache(state, cached, t) ==
    /\ \/ t - state.lastRequest < RATE_LIMIT_INTERVAL_MS
       \/ t - state.lastRequest < state.backoffMs
    /\ cached # Undefined
    /\ t - cached.cachedAt < CACHE_TTL_MS * 2

\* depthCache.get(symbol)
CacheGet(cache, symbol) == IF symbol \in DOMAIN cache THEN cache[symbol] ELSE Undefined

\* app.get('/api/depth/:symbol') up to its answer from the cache or to the
\* await of fetchBinanceDepth; handlers are numbered as they start
DepthRequest(id, limits) ==
    /\ id \notin DOMAIN pending
    /\ \A j \in Handlers : j < id => j \in DOMAIN pending
    /\ \E raw \in PathSymbols, q \in limits :
         LET symbol == toUpperCase(raw)
             limit  == LimitOf(q)
             state  == GetState(rateLimitState, symbol)
             cached == CacheGet(depthCache, symbol)
         IN  IF ServeFromCache(state, cached, now)
             THEN /\ lastResponse' =
                        Sent(DepthResponse(cached, limit, "cache"), q, FALSE, TRUE)
                  /\ UNCHANGED pending
             ELSE /\ pending' = SetEntry(pending, id,
                        [symbol |-> symbol, limit |-> limit, limitParam |-> q,
                         \* state aliases the map's record when there is one
                         stateInMap |-> symbol \in DOMAIN rateLimitState,
                         cached |-> cached])
                  /\ UNCHANGED lastResponse
    /\ UNCHANGED <<depthCache, rateLimitState, lastFetch>>
    /\ UNCHANGED <<engineVars, proxyVars>>

\* the fetch of handler id ends: the rest of fetchBinanceDepth, then the rest
\* of the handler
DepthFetchEnds(id, maxId) ==
    /\ id \in DOMAIN pending
    /\ \E outcome \in FetchOutcomes(maxId) :
         LET h == pending[id]
             r == fetchBinanceDepth(rateLimitState, depthCache, h.symbol, outcome, now)
             retryAfter == IF h.stateInMap THEN r.rl[h.symbol].backoffMs
                           ELSE MIN_BACKOFF_MS
             answer == IF r.ret # Undefined
                       THEN DepthResponse(r.ret, h.limit, "binance")
                       ELSE IF h.cached # Undefined
                       THEN DepthResponse(h.cached, h.limit, "cache")
                       ELSE UnavailableResponse(retryAfter)
         IN  /\ rateLimitState' = r.rl
             /\ depthCache' = r.cache
             /\ lastFetch' = [kind |-> IF outcome.kind = "ok" THEN "ok"
                                       ELSE IF outcome.kind = "status"
                                               /\ outcome.status \in {429, 418}
                                       THEN "rateLimited" ELSE "failed",
                              at |-> now,
                              backoffMs |-> GetState(r.rl, h.symbol).backoffMs]
             /\ lastResponse' = Sent(answer, h.limitParam, TRUE, h.symbol \in DOMAIN r.cache)
    /\ pending' = [j \in DOMAIN pending \ {id} |-> pending[j]]
    /\ UNCHANGED <<engineVars, proxyVars>>

\* time passes: step ms at a time, at most steps times
TimePasses(step, steps) ==
    /\ now + step <= StartTime + steps * step
    /\ now' = now + step
    \* the response has left the server by then
    /\ lastResponse' = NoResponse
    /\ UNCHANGED <<activeSymbols, trackers, snapshotQueueRef, snapshotInProgressRef,
                   fetchBy, streamPos, wire, hist>>
    /\ UNCHANGED <<depthCache, rateLimitState, pending, lastFetch>>
    /\ UNCHANGED proxyVars

-----------------------------------------------------------------------------
(* Initial states *)

ProxyInit ==
    /\ wsClients = {}
    /\ clientSymbols = [c \in {} |-> {}]
    /\ clientReady = [c \in {} |-> "OPEN"]
    /\ currentStreamSymbols = {}
    /\ binanceWs = NoSocket
    /\ binanceWsState = "disconnected"
    /\ reconnectAttempts = 0
    /\ sockets = [k \in {} |-> [readyState |-> "CLOSED", closedToResubscribe |-> FALSE]]
    /\ reconnectTimers = 0
    /\ timerDelay = NoDelay
    /\ fwd = NoForward
    /\ shuttingDown = FALSE

RestInit ==
    /\ depthCache = [x \in {} |-> Undefined]
    /\ rateLimitState = [x \in {} |-> [lastRequest |-> 0, backoffMs |-> MIN_BACKOFF_MS]]
    /\ pending = [x \in {} |-> 0]
    /\ lastFetch = NoFetch
    /\ lastResponse = NoResponse

\* the hook mounted with the given symbols: getTracker() built every engine
HookInit(syms) ==
    /\ activeSymbols = syms
    /\ trackers = [s \in {syms[i] : i \in 1..Len(syms)} |-> NewEngine]
    /\ snapshotQueueRef = << >>
    /\ snapshotInProgressRef = FALSE
    /\ fetchBy = [s \in {syms[i] : i \in 1..Len(syms)} |-> "none"]
    /\ streamPos = [s \in {syms[i] : i \in 1..Len(syms)} |-> 0]
    /\ wire = [s \in {syms[i] : i \in 1..Len(syms)} |-> {}]
    /\ now = StartTime
    /\ hist = [s \in {syms[i] : i \in 1..Len(syms)} |-> NewHist]

-----------------------------------------------------------------------------
(* Spec: one engine, every interleaving of stream, scheduler, timer and fetch *)

Init == HookInit(<<"BTCUSDT">>) /\ ProxyInit /\ RestInit

Next ==
    \/ \E s \in DOMAIN trackers : DeliverDiff(s, MaxId, {<< >>}, {<< >>})
    \/ SchedulerTick
    \/ \E s \in DOMAIN trackers : RetryTimer(s)
    \/ \E s \in DOMAIN trackers : SnapshotFails(s)
    \/ \E s \in DOMAIN trackers : SnapshotArrives(s, MaxId, {<< >>}, {<< >>})
    \/ AdvanceClock(MaxClockSteps)

Spec == Init /\ [][Next]_vars

(* SpecBook: one engine, diffs and snapshots carrying price levels *)

NextBook ==
    \/ \E s \in DOMAIN trackers : DeliverDiff(s, MaxBookId, UpdateLists, UpdateLists)
    \/ \E s \in DOMAIN trackers : DeliverDiffTwice(s, MaxBookId, UpdateLists, UpdateLists)
    \/ SchedulerTick
    \/ \E s \in DOMAIN trackers : RetryTimer(s)
    \/ \E s \in DOMAIN trackers : SnapshotFails(s)
    \/ \E s \in DOMAIN trackers : SnapshotArrives(s, MaxBookId, UpdateLists, UpdateLists)
    \/ AdvanceClock(MaxShortClockSteps)

SpecBook == Init /\ [][NextBook]_vars

(* SpecReorder: one engine whose diffs, each setting or deleting the one    *)
(* bid level, overtake each other under way; snapshots carry no levels      *)

NextReorder ==
    \/ \E s \in DOMAIN trackers : ExchangeSends(s, MaxReorderId, OneLevelLists, {<< >>})
    \/ \E s \in DOMAIN trackers : DeliverFromWire(s)
    \/ SchedulerTick
    \/ \E s \in DOMAIN trackers : RetryTimer(s)
    \/ \E s \in DOMAIN trackers : SnapshotFails(s)
    \/ \E s \in DOMAIN trackers : SnapshotArrives(s, MaxReorderId, {<< >>}, {<< >>})
    \/ AdvanceClock(MaxShortClockSteps)

SpecReorder == Init /\ [][NextReorder]_vars

(* SpecBuffer: one engine whose first snapshot fetch, started by the        *)
(* scheduler, stays pending while the stream delivers diff after diff: the  *)
(* run from the first diff on, and the run from the state it reaches just   *)
(* below the limit of the buffer                                            *)

\* the diffs with ids 1..n, buffered in order
BufferedRun(n) == [i \in 1..n |-> [U |-> i, u |-> i, b |-> << >>, a |-> << >>]]

InitBuffer ==
    /\ activeSymbols = <<"BTCUSDT">>
    /\ snapshotQueueRef = << >>
    /\ snapshotInProgressRef = TRUE
    /\ fetchBy = [s \in {"BTCUSDT"} |-> "scheduler"]
    /\ now = StartTime
    /\ hist = [s \in {"BTCUSDT"} |-> NewHist]
    /\ wire = [s \in {"BTCUSDT"} |-> {}]
    /\ \E n \in {0, MAX_BUFFER_SIZE - 2} :
          /\ streamPos = [s \in {"BTCUSDT"} |-> n]
          /\ trackers = [s \in {"BTCUSDT"} |->
                [initSnapshotStart(NewEngine, StartTime) EXCEPT !.buffer = BufferedRun(n)]]
    /\ ProxyInit
    /\ RestInit

NextBuffer == \E s \in DOMAIN trackers : DeliverNextDiff(s, MaxBufferId, {<< >>}, {<< >>})

SpecBuffer == InitBuffer /\ [][NextBuffer]_vars

(* SpecAgain: one engine whose stream delivers a frame a second time *)

NextAgain ==
    \/ \E s \in DOMAIN trackers : DeliverDiff(s, MaxAgainId, {<< >>}, {<< >>})
    \/ \E s \in DOMAIN trackers : DeliverBufferedAgain(s)
    \/ SchedulerTick
    \/ \E s \in DOMAIN trackers : RetryTimer(s)
    \/ \E s \in DOMAIN trackers : SnapshotFails(s)
    \/ \E s \in DOMAIN trackers : SnapshotArrives(s, MaxAgainId, {<< >>}, {<< >>})
    \/ AdvanceClock(MaxShortClockSteps)

SpecAgain == Init /\ [][NextAgain]_vars

(* SpecLevels: one engine whose diffs follow each other without a gap and  *)
(* set levels at three prices on each side, and whose snapshots carry a    *)
(* level of quantity 0                                                     *)

NextLevels ==
    \/ \E s \in DOMAIN trackers : DeliverNextDiff(s, MaxLevelsId, WideLists, WideLists)
    \/ SchedulerTick
    \/ \E s \in DOMAIN trackers :
          SnapshotArrives(s, MaxLevelsId, SnapshotSides, SnapshotSides)

SpecLevels == Init /\ [][NextLevels]_vars

(* SpecSched: two engines behind the one scheduler *)

InitSched == HookInit(<<"BTCUSDT", "ETHUSDT">>) /\ ProxyInit /\ RestInit

NextSched ==
    \/ \E s \in DOMAIN trackers : DeliverDiff(s, MaxSchedId, {<< >>}, {<< >>})
    \/ SchedulerTick
    \/ \E s \in DOMAIN trackers : RetryTimer(s)
    \/ \E s \in DOMAIN trackers : SnapshotFails(s)
    \/ \E s \in DOMAIN trackers : SnapshotArrives(s, MaxSchedId, {<< >>}, {<< >>})
    \/ AdvanceClock(MaxShortClockSteps)

SpecSched == InitSched /\ [][NextSched]_vars

(* SpecProxy: the proxy with its clients and upstream sockets *)

InitProxy == HookInit(<< >>) /\ ProxyInit /\ RestInit

NextProxy ==
    \/ \E c \in Clients : ClientConnect(c)
    \/ \E c \in Clients : ClientMessage(c)
    \/ \E c \in Clients : ClientClosing(c)
    \/ \E c \in Clients : ClientClose(c)
    \/ \E k \in 1..MaxSockets : UpstreamOpen(k)
    \/ \E k \in 1..MaxSockets : UpstreamMessage(k)
    \/ \E k \in 1..MaxSockets : UpstreamClose(k)
    \/ ReconnectTimer

SpecProxy == InitProxy /\ [][NextProxy]_vars

(* SpecShutdown: the proxy until the process exits after a signal *)

NextShutdown ==
    \/ ~Exited /\ \E c \in Clients : ClientConnect(c)
    \/ ~Exited /\ \E c \in Clients : ClientMessage(c)
    \/ ~Exited /\ \E c \in Clients : ClientClosing(c)
    \/ ~Exited /\ \E c \in Clients : ClientClose(c)
    \/ ~Exited /\ \E k \in 1..MaxSockets : UpstreamOpen(k)
    \/ ~Exited /\ \E k \in 1..MaxSockets : UpstreamMessage(k)
    \/ ~Exited /\ \E k \in 1..MaxSockets : UpstreamClose(k)
    \/ ~Exited /\ ReconnectTimer
    \/ Shutdown

SpecShutdown == InitProxy /\ [][NextShutdown]_vars

(* SpecRest: the REST depth endpoint with overlapping requests of one symbol *)

NextRest ==
    \/ \E id \in Handlers : DepthRequest(id, LimitParams)
    \/ \E id \in Handlers : DepthFetchEnds(id, MaxRestId)
    \/ TimePasses(RestClockStep, MaxRestClockSteps)

SpecRest == InitProxy /\ [][NextRest]_vars

(* SpecBackoff: one engine of the hook and the depth endpoint of the proxy, *)
(* side by side, over a clock coarse enough for the backoffs to reach their *)
(* cap                                                                      *)

NextBackoff ==
    \/ SchedulerTick
    \/ \E s \in DOMAIN trackers : RetryTimer(s)
    \/ \E s \in DOMAIN trackers : SnapshotFails(s)
    \/ \E s \in DOMAIN trackers : SnapshotArrives(s, MaxSchedId, {<< >>}, {<< >>})
    \/ DepthRequest(1, {""})
    \/ DepthFetchEnds(1, MaxSchedId)
    \/ TimePasses(LongClockStep, MaxLongClockSteps)

SpecBackoff == Init /\ [][NextBackoff]_vars

(* SpecRetry: one engine with its stream over the coarse clock, so that    *)
(* failed fetches and failed replays meet every backoff up to the cap      *)

NextRetry ==
    \/ \E s \in DOMAIN trackers : DeliverDiff(s, MaxSchedId, {<< >>}, {<< >>})
    \/ SchedulerTick
    \/ \E s \in DOMAIN trackers : RetryTimer(s)
    \/ \E s \in DOMAIN trackers : SnapshotFails(s)
    \/ \E s \in DOMAIN trackers : SnapshotArrives(s, MaxSchedId, {<< >>}, {<< >>})
    \/ TimePasses(LongClockStep, MaxLongClockSteps)

SpecRetry == Init /\ [][NextRetry]_vars

-----------------------------------------------------------------------------
(* Properties *)

Engines == DOMAIN trackers

\* C1: in every reachable state of every engine, needsResync = FALSE implies
\* isSynced = TRUE and an empty diff buffer.
C1_NoResyncMeansSyncedAndEmpty ==
    \A s \in Engines :
        ~trackers[s].needsResync =>
            trackers[s].isSynced /\ Len(trackers[s].buffer) = 0

\* C2: in every reachable state, isSynced and not resyncInFlight implies that
\* the diff buffer is empty.
C2_SteadyStateBufferEmpty ==
    \A s \in Engines :
        (trackers[s].isSynced /\ ~trackers[s].resyncInFlight) =>
            Len(trackers[s].buffer) = 0

\* C3: at most one engine of the process has a snapshot fetch in flight.
C3_OneSnapshotInFlight ==
    Cardinality({s \in Engines : trackers[s].resyncInFlight}) <= 1

C5_LastUpdateIdNeverDecreases ==
    [][\A s \in Engines : trackers'[s].lastUpdateId >= trackers[s].lastUpdateId]_vars

\* C6: of two diffs applied consecutively to one book with no snapshot commit
\* between them, the later one's U is the earlier one's u plus 1.
C6_SuccessiveDiffsContiguous ==
    \A s \in Engines : hist[s].contiguous

\* C7: every price key present in the bids map or in the asks map has a
\* quantity above zero.
C7_NoZeroQuantityLevel ==
    \A s \in Engines :
        /\ \A p \in DOMAIN trackers[s].bids : trackers[s].bids[p] > 0
        /\ \A p \in DOMAIN trackers[s].asks : trackers[s].asks[p] > 0

\* C8: after every handled client event the upstream symbol set equals the
\* union of the subscription sets of the connected clients.
C8_UpstreamSetIsUnion ==
    currentStreamSymbols = UNION {clientSymbols[c] : c \in DOMAIN clientSymbols}

\* C9: a well-formed upstream frame of symbol s was sent to exactly the open
\* clients whose subscription set holds s.
C9_ForwardIffSubscribed ==
    fwd.frame.kind = "data" =>
        fwd.to = {c \in wsClients : clientReady[c] = "OPEN" /\ fwd.frame.s \in clientSymbols[c]}

\* a frame that reached one open client and was kept from another open client
C9_Witness ==
    /\ fwd.frame.kind = "data"
    /\ \E c \in wsClients, d \in wsClients :
         /\ clientReady[c] = "OPEN" /\ clientReady[d] = "OPEN"
         /\ c \in fwd.to /\ d \notin fwd.to
         /\ clientSymbols[d] # {}

\* C10: at most one upstream socket is connecting or open, and it is the one
\* binanceWs references.
C10_OneUpstreamSocket ==
    LET live == {k \in DOMAIN sockets : sockets[k].readyState \in {"CONNECTING", "OPEN"}}
    IN  Cardinality(live) <= 1 /\ live \subseteq {binanceWs}

\* connectToBinance replaced an open connection: the old socket is closing
\* while the new one is up
C10_Witness ==
    \E k \in DOMAIN sockets, j \in DOMAIN sockets :
        /\ sockets[k].readyState = "CLOSING"
        /\ sockets[j].readyState \in {"CONNECTING", "OPEN"}
        /\ binanceWs = j

\* the union of the subscription sets of the connected clients
AllSubscriptions == UNION {clientSymbols[c] : c \in DOMAIN clientSymbols}

\* the referenced upstream socket has closed
UpstreamLost == binanceWs # NoSocket /\ sockets[binanceWs].readyState = "CLOSED"

\* an open upstream connection subscribed to the union
UpstreamServes ==
    /\ binanceWs # NoSocket
    /\ sockets[binanceWs].readyState = "OPEN"
    /\ currentStreamSymbols = AllSubscriptions

\* the closing handshake started by close() on socket k completes
ClosingCompletes(k) ==
    /\ k \in DOMAIN sockets
    /\ sockets[k].readyState = "CLOSING"
    /\ UpstreamClose(k)

\* the closing handshake of client c completes
ClientCloseCompletes(c) ==
    /\ c \in wsClients
    /\ clientReady[c] = "CLOSING"
    /\ ClientClose(c)

\* SpecProxy with the timers firing, the exchange accepting connections and
\* closing handshakes completing
SpecProxyFair ==
    /\ SpecProxy
    /\ WF_vars(ReconnectTimer)
    /\ \A k \in 1..MaxSockets : WF_vars(UpstreamOpen(k))
    /\ \A k \in 1..MaxSockets : WF_vars(ClosingCompletes(k))
    /\ \A c \in Clients : WF_vars(ClientCloseCompletes(c))

\* a timer or a closing handshake is pending whose handler lies beyond the
\* sockets, timers and attempts explored: the behaviour is cut off there
CutOff ==
    \/ reconnectTimers > 0 /\ ~ENABLED ReconnectTimer
    \/ \E k \in DOMAIN sockets :
          sockets[k].readyState = "CLOSING" /\ ~ENABLED UpstreamClose(k)

\* C11: when the upstream connection has closed while a client with a
\* non-empty subscription set is connected, then eventually an upstream
\* connection for the union of the subscriptions is open, or no subscribed
\* client is left (behaviours that are cut off are not judged).
C11_UpstreamRecovers ==
    (UpstreamLost /\ AllSubscriptions # {})
        ~> (UpstreamServes \/ AllSubscriptions = {} \/ CutOff)

\* C12: the delay of a scheduled reconnect, before jitter, is
\* min(1000 * 2^n, 30000) with n the attempt counter as the close event found
\* it (0 for the first reconnect after a successful open), and the jitter is
\* in [0, 1000).
C12_DelayFromCounterBeforeClose ==
    timerDelay # NoDelay =>
        /\ timerDelay.delay = Min(1000 * Pow2(timerDelay.n0), 30000)
        /\ timerDelay.jitter >= 0 /\ timerDelay.jitter < 1000

\* C12 as amended: the delay uses the counter after the close event
\* incremented it, so the first reconnect after a successful open waits
\* 2000 ms before jitter; an open connection means a counter of 0.
C12_DelayFromCounterAfterIncrement ==
    /\ timerDelay # NoDelay =>
          /\ timerDelay.delay = Min(1000 * Pow2(timerDelay.n0 + 1), 30000)
          /\ timerDelay.jitter >= 0 /\ timerDelay.jitter < 1000
    /\ binanceWsState = "connected" => reconnectAttempts = 0

\* the reconnect scheduled when the referenced connection closed with the
\* counter at 0
C12_Witness ==
    /\ timerDelay # NoDelay
    /\ timerDelay.n0 = 0
    /\ timerDelay.delay = 2000
    /\ binanceWs # NoSocket
    /\ sockets[binanceWs].readyState = "CLOSED"

\* the symbols of the depth endpoint's maps
RestSymbols == {toUpperCase(raw) : raw \in PathSymbols}

\* a step in which a request of the depth endpoint arrives
RequestArrives ==
    /\ now' = now
    /\ DOMAIN pending \subseteq DOMAIN pending'
    /\ depthCache' = depthCache

\* C13: a request that arrives while its symbol is throttled (now -
\* lastRequest < max(500, backoffMs)) and the cache holds a snapshot younger
\* than 10000 ms is answered with that snapshot and source "cache", starts no
\* upstream fetch and leaves the rate-limit record as it is.
C13_ThrottledServesCache ==
    [][\A sym \in RestSymbols :
         LET state == GetState(rateLimitState, sym)
         IN  ( /\ RequestArrives
               /\ now - state.lastRequest < Max(RATE_LIMIT_INTERVAL_MS, state.backoffMs)
               /\ sym \in DOMAIN depthCache
               /\ now - depthCache[sym].cachedAt < 2 * CACHE_TTL_MS )
             => /\ pending' = pending
                /\ rateLimitState' = rateLimitState
                /\ lastResponse'.status = 200
                /\ lastResponse'.source = "cache"
                /\ ~lastResponse'.fetched
                /\ lastResponse'.lastUpdateId = depthCache[sym].lastUpdateId
                /\ lastResponse'.cachedAt = depthCache[sym].cachedAt]_vars

\* a throttled request answered from a cache older than CACHE_TTL_MS
C13_Witness ==
    /\ lastResponse.status = 200
    /\ lastResponse.source = "cache"
    /\ ~lastResponse.fetched
    /\ now - lastResponse.cachedAt >= CACHE_TTL_MS

\* C14: the depth endpoint answers 503 only if the depth cache holds no
\* snapshot of the symbol when the response is produced.
C14_Unavailable503OnlyIfCacheEmpty ==
    lastResponse.status = 503 => ~lastResponse.cacheHeld

\* C15: after a fetch ended with 429 or 418, a request that arrives within
\* backoffMs of that fetch while the cache holds a serveable snapshot starts
\* no upstream fetch.
C15_NoFetchWithinBackoffOfRateLimit ==
    [][\A sym \in RestSymbols :
         ( /\ RequestArrives
           /\ lastFetch.kind = "rateLimited"
           /\ now - lastFetch.at < lastFetch.backoffMs
           /\ sym \in DOMAIN depthCache
           /\ now - depthCache[sym].cachedAt < 2 * CACHE_TTL_MS )
         => pending' = pending]_vars

\* a step in which an upstream depth fetch ends
FetchEnds == DOMAIN pending' # DOMAIN pending /\ DOMAIN pending' \subseteq DOMAIN pending

\* C16: every failed upstream depth fetch doubles the symbol's backoffMs,
\* capped at MAX_BACKOFF, and returns null; a successful fetch resets
\* backoffMs to MIN_BACKOFF.
C16_FailureDoublesSuccessResets ==
    [][\A sym \in RestSymbols :
         FetchEnds =>
            /\ lastFetch'.kind # "ok" =>
                  /\ GetState(rateLimitState', sym).backoffMs =
                        Min(2 * GetState(rateLimitState, sym).backoffMs, MAX_BACKOFF_MS)
                  /\ lastResponse'.source # "binance"
            /\ lastFetch'.kind = "ok" =>
                  GetState(rateLimitState', sym).backoffMs = MIN_BACKOFF_MS]_vars

\* C17: the backoff of every engine and of every rate-limit record of the
\* proxy stays within [2000, 30000].
C17_BackoffWithinBounds ==
    /\ \A s \in Engines :
         /\ trackers[s].snapshotBackoffMs >= 2000
         /\ trackers[s].snapshotBackoffMs <= 30000
    /\ \A sym \in DOMAIN rateLimitState :
         /\ rateLimitState[sym].backoffMs >= 2000
         /\ rateLimitState[sym].backoffMs <= 30000

\* an engine and a rate-limit record both at the cap, which the next doubling
\* would pass
C17_Witness ==
    /\ \E s \in Engines : trackers[s].snapshotBackoffMs = maxBackoffMs
    /\ \E sym \in DOMAIN rateLimitState : rateLimitState[sym].backoffMs = MAX_BACKOFF_MS

\* C18: a depth request with limit=0 is answered with empty bids and asks and
\* the snapshot's valid lastUpdateId.
C18_LimitZeroGivesEmptySides ==
    (lastResponse.status = 200 /\ lastResponse.limitParam = "0") =>
        /\ lastResponse.bids = << >>
        /\ lastResponse.asks = << >>
        /\ lastResponse.lastUpdateId >= 1

\* C19: delivering the same diff to an engine twice in a row leaves the book
\* (bids, asks, lastUpdateId) exactly as it was after the first delivery,
\* whenever the first delivery was applied.
C19_SameDiffTwiceKeepsBook ==
    \A s \in Engines : hist[s].relation # "dupDiffers"

\* a diff applied by the normal flow that put a level into the book and was
\* then delivered again
C19_Witness ==
    \E s \in Engines :
        /\ hist[s].relation = "dupSame"
        /\ hist[s].lastKind = "live"
        /\ trackers[s].lastUpdateId = streamPos[s]
        /\ trackers[s].bids # EmptyMap

\* C20: when a snapshot commits and every buffered diff has
\* u <= snapshot.lastUpdateId, the resulting book (bids, asks, lastUpdateId)
\* is identical to the snapshot.
C20_CoveredBufferKeepsSnapshot ==
    \A s \in Engines : hist[s].relation # "snapChanged"

\* such a commit over a buffer that was not empty (the replay found no
\* continuation, so the engine is left unsynced) with a level in the book
C20_Witness ==
    \E s \in Engines :
        /\ hist[s].relation = "snapKept"
        /\ ~trackers[s].isSynced
        /\ trackers[s].buffer = << >>
        /\ trackers[s].bids # EmptyMap
\* C21: when a snapshot with id S commits over a non-empty buffer and the
\* replay succeeds, the book is the snapshot with the buffered diffs from the
\* first one with U <= S+1 <= u on applied in the order of u, however they
\* were buffered; lastUpdateId is the u of the last of them, the buffer is
\* empty, the engine is synced, needs no resync and is not degraded.
C21_ReplayAppliesInOrderOfU ==
    \A s \in Engines : hist[s].relation # "replayOff"

\* a successful replay of two diffs that changed the book's one level,
\* buffered in the order opposite to their ids
C21_Witness ==
    \E s \in Engines :
        /\ hist[s].relation = "replayReordered"
        /\ hist[s].count = 2
        /\ hist[s].lastKind = "replay"
        /\ trackers[s].lastUpdateId = MaxReorderId
        /\ trackers[s].bids # EmptyMap
\* C22: when a snapshot with id S commits over a non-empty buffer that holds
\* no diff with U <= S+1 <= u, the replay fails: the buffer is cleared, the
\* engine is left unsynced with needsResync = TRUE, and a retry of the
\* snapshot is scheduled.
C22_NoStartFailsReplay ==
    \A s \in Engines : hist[s].noStart # "off"

\* such a commit over a buffer holding a diff beyond the snapshot
C22_Witness ==
    \E s \in Engines :
        /\ hist[s].noStart = "failedAhead"
        /\ ~trackers[s].isSynced
        /\ trackers[s].buffer = << >>
        /\ fetchBy[s] = "none"
\* C23: in a synced engine with no snapshot in flight a diff with
\* U > lastUpdateId + 1 is not applied: bids, asks and lastUpdateId stay as
\* they are, the diff is appended to the buffer and needsResync is TRUE.
C23_GapDiffBufferedNotApplied ==
    \A s \in Engines :
        \A event \in Events(streamPos[s], MaxId, UpdateLists, UpdateLists) :
            LET e == trackers[s]
                after == processEvent(e, event)
            IN  ( /\ event.U <= event.u
                  /\ e.isSynced
                  /\ ~e.resyncInFlight
                  /\ event.U > e.lastUpdateId + 1 )
                => /\ Book(after) = Book(e)
                   /\ Len(after.buffer) >= 1
                   /\ after.buffer[Len(after.buffer)] = event
                   /\ after.needsResync

\* a synced engine that has just buffered a diff beyond lastUpdateId + 1
C23_Witness ==
    \E s \in Engines :
        /\ trackers[s].isSynced
        /\ ~trackers[s].resyncInFlight
        /\ ~trackers[s].degraded
        /\ trackers[s].needsResync
        /\ Len(trackers[s].buffer) = 1
        /\ trackers[s].buffer[1].U > trackers[s].lastUpdateId + 1
        /\ trackers[s].buffer[1].u = streamPos[s]
\* the pending fetch of s completes
FetchCompletes(s) ==
    SnapshotFails(s) \/ SnapshotArrives(s, MaxSchedId, {<< >>}, {<< >>})

\* SpecSched with the interval callback firing, every started fetch
\* completing and time passing
SpecSchedFair ==
    /\ SpecSched
    /\ WF_vars(SchedulerTick)
    /\ \A s \in {"BTCUSDT", "ETHUSDT"} : WF_vars(FetchCompletes(s))
    /\ WF_vars(AdvanceClock(MaxShortClockSteps))

\* the clock has reached the end of the explored time while s still waits for
\* its backoff to pass
WaitsBeyondClock(s) ==
    /\ ~ENABLED AdvanceClock(MaxShortClockSteps)
    /\ now - trackers[s].lastResyncAt < trackers[s].snapshotBackoffMs

\* C24: whenever the engine of an active symbol has needsResync = TRUE, a
\* snapshot attempt for it is eventually in progress, whatever other symbols
\* are queued (an engine still waiting for its backoff when the explored
\* time ends is not judged).
C24_NeedsResyncLeadsToAttempt ==
    \A s \in {"BTCUSDT", "ETHUSDT"} :
        trackers[s].needsResync ~> (trackers[s].resyncInFlight \/ WaitsBeyondClock(s))

\* the scheduler has started the attempt of the second symbol after the
\* attempt of the first one, which needs a resync again
C24_Witness ==
    /\ fetchBy["ETHUSDT"] = "scheduler"
    /\ trackers["ETHUSDT"].resyncInFlight
    /\ trackers["BTCUSDT"].lastResyncAt >= StartTime
    /\ trackers["BTCUSDT"].needsResync
    /\ ~trackers["BTCUSDT"].resyncInFlight
\* C25: the diff buffer never holds more than MAX_BUFFER = 2000 events: an
\* insert at a length below the limit appends (at 1999 the buffer becomes
\* 2000 long), and an insert at length >= 2000 first drops the 200 oldest
\* events and then appends the new one.
C25_BufferBounded ==
    [][\A s \in Engines :
         LET buf == trackers[s].buffer
             new == trackers'[s].buffer
         IN  /\ Len(new) <= 2000
             /\ new # buf =>
                   /\ new[Len(new)].u = streamPos'[s]
                   /\ IF Len(buf) >= 2000
                      THEN /\ Len(new) = Len(buf) - 200 + 1
                           /\ SubSeq(new, 1, Len(new) - 1) = SubSeq(buf, 201, Len(buf))
                      ELSE /\ Len(new) = Len(buf) + 1
                           /\ SubSeq(new, 1, Len(new) - 1) = buf]_vars

\* the buffer after the insert at length 2000: the 200 oldest diffs are gone
C25_Witness ==
    \E s \in Engines :
        /\ Len(trackers[s].buffer) = 1801
        /\ trackers[s].buffer[1].u = 201
        /\ trackers[s].buffer[1801].u = 2001
\* the depth arguments of getBook
Depths == {0, 1, 2, 3}

\* the levels of a book side with a size above 0
Resting(book) == {p \in DOMAIN book : book[p] > 0}

\* the sum of the sizes of the first i levels
RECURSIVE SumOfSizes(_, _)
SumOfSizes(levels, i) == IF i = 0 THEN 0 ELSE levels[i].size + SumOfSizes(levels, i - 1)

\* side, as getBook returned it for a book side and a depth, holds the best
\* levels of the book side from the best one outward, at most depth of them,
\* with their cumulative totals
BestLevelsOutward(side, book, depth, isAsk) ==
    /\ Len(side) = Min(depth, Cardinality(Resting(book)))
    /\ \A i \in 1..Len(side) :
          /\ \E p \in Resting(book) :
                parseFloat(p) = side[i].price /\ book[p] = side[i].size
          /\ side[i].total = SumOfSizes(side, i)
    /\ \A i \in 1..(Len(side) - 1) :
          IF isAsk THEN side[i].price < side[i + 1].price
          ELSE side[i].price > side[i + 1].price
    /\ \A p \in Resting(book) :
          \/ \E i \in 1..Len(side) : side[i].price = parseFloat(p)
          \/ \A i \in 1..Len(side) :
                IF isAsk THEN side[i].price < parseFloat(p)
                ELSE side[i].price > parseFloat(p)

\* C26: getBook(depth) returns at most depth levels per side, bids in
\* strictly descending and asks in strictly ascending numeric price order
\* from the best level outward, each with the sum of the sizes of that level
\* and the better levels as its total.
C26_BookSortedWithCumulativeTotals ==
    \A s \in Engines : \A depth \in Depths :
        LET r == getBook(trackers[s], depth)
        IN  /\ BestLevelsOutward(r.bids, trackers[s].bids, depth, FALSE)
            /\ BestLevelsOutward(r.asks, trackers[s].asks, depth, TRUE)

\* a book with three resting bids of which getBook(2) returns the best two,
\* and with a level of size 0 among its asks
C26_Witness ==
    \E s \in Engines :
        /\ Cardinality(Resting(trackers[s].bids)) = 3
        /\ getBook(trackers[s], 2).bids[1].price = 11
        /\ getBook(trackers[s], 2).bids[2].total =
              trackers[s].bids["11"] + trackers[s].bids["10"]
        /\ \E p \in DOMAIN trackers[s].asks : trackers[s].asks[p] = 0
\* C27: an engine seeds its book and lastUpdateId from a diff only if no
\* snapshot has been successfully fused for it before.
C27_SeedOnlyBeforeFirstFusion ==
    \A s \in Engines : hist[s].seeded # "afterFused"

\* C28: whenever the synced flag of an engine is true, a snapshot has been
\* committed and successfully replayed for it before.
C28_SyncedOnlyAfterFusion ==
    \A s \in Engines : trackers[s].isSynced => hist[s].fused
\* C29: an upstream frame whose symbol cannot be extracted (it is not valid
\* JSON, or it is JSON without data.s) is forwarded to every open client.
C29_UnextractableFrameToAllOpenClients ==
    fwd.frame.kind \in {"notJson", "noSymbol"}
        => fwd.to = {c \in wsClients : clientReady[c] = "OPEN"}
\* C30: the shutdown handler closes the upstream connection and every
\* client, and once shutdown has begun no reconnect timer, pending or
\* scheduled later, opens a new upstream connection.
C30_NoReconnectAfterShutdown ==
    [][ /\ (~shuttingDown /\ shuttingDown')
            => /\ \A k \in DOMAIN sockets' :
                     k = binanceWs' => sockets'[k].readyState \in {"CLOSING", "CLOSED"}
               /\ \A c \in wsClients' : clientReady'[c] # "OPEN"
        /\ (shuttingDown /\ reconnectTimers' < reconnectTimers)
            => ~(binanceWs' # binanceWs /\ binanceWs' # NoSocket) ]_vars
\* the replay, walking the sorted buffer from index i with lastUpdateId
\* last, reaches a diff with U > last + 1 or u <= last
RECURSIVE MeetsDiffOutOfSequence(_, _, _)
MeetsDiffOutOfSequence(sorted, i, last) ==
    IF i > Len(sorted) THEN FALSE
    ELSE IF sorted[i].U > last + 1 \/ sorted[i].u <= last THEN TRUE
    ELSE MeetsDiffOutOfSequence(sorted, i + 1, sorted[i].u)

\* C31: when the replay after a snapshot commit reaches, after its starting
\* diff e0, a diff with U > lastUpdateId + 1 or u <= lastUpdateId, the
\* replay fails: the buffer is cleared, the engine is not synced and
\* needsResync is TRUE.
C31_DiffOutOfSequenceFailsReplay ==
    \A s \in Engines :
        fetchBy[s] # "none" =>
            \A data \in Snapshots(MaxAgainId, {<< >>}, {<< >>}) :
                LET e == trackers[s]
                    c == snapshotCommit(e, data)
                    sorted == SortByU(c.buffer)
                    startIdx == FindStart(sorted, c.lastUpdateId, 1)
                    after == initSnapshotOk(e, data, now)
                IN  ( /\ startIdx # 0
                      /\ MeetsDiffOutOfSequence(sorted, startIdx + 1, sorted[startIdx].u) )
                    => /\ after.buffer = << >>
                       /\ ~after.isSynced
                       /\ after.needsResync
\* C32: in an engine that a snapshot has synced and that holds diffs
\* buffered since a gap, no handler other than the commit of the next
\* snapshot removes a diff from the buffer while it is below MAX_BUFFER_SIZE.
C32_GapBufferKeptUntilCommit ==
    [][ \A s \in Engines :
          ( /\ trackers[s].isSynced
            /\ ~trackers[s].degraded
            /\ trackers[s].needsResync
            /\ Len(trackers[s].buffer) < MAX_BUFFER_SIZE
            /\ ~(fetchBy[s] # "none" /\ fetchBy'[s] = "none") )
          => \A i \in 1..Len(trackers[s].buffer) :
                \E j \in 1..Len(trackers'[s].buffer) :
                    trackers'[s].buffer[j] = trackers[s].buffer[i] ]_vars
\* depth payloads in which U, u or both are missing or not numbers
OtherEvents ==
    {[U |-> U, u |-> u, b |-> << >>, a |-> << >>] :
        U \in {NotANumber, 1}, u \in {NotANumber, 1}} \ {[U |-> 1, u |-> 1, b |-> << >>, a |-> << >>]}

\* C33: while a snapshot of an engine is in flight processEvent leaves bids,
\* asks, lastUpdateId, isSynced, needsResync and degraded as they are; a diff
\* with numeric U and u is appended to the buffer and nothing else changes,
\* and any other event changes nothing.
C33_InFlightOnlyBuffers ==
    \A s \in Engines :
        trackers[s].resyncInFlight =>
            \A event \in Events(streamPos[s], MaxAgainId, UpdateLists, UpdateLists)
                             \cup OtherEvents :
                LET e == trackers[s]
                    after == processEvent(e, event)
                IN  /\ Book(after) = Book(e)
                    /\ after.isSynced = e.isSynced
                    /\ after.needsResync = e.needsResync
                    /\ after.degraded = e.degraded
                    /\ IF event \in OtherEvents
                       THEN after = e
                       ELSE /\ after = [e EXCEPT !.buffer = after.buffer]
                            /\ Len(e.buffer) < MAX_BUFFER_SIZE
                                  => after.buffer = Append(e.buffer, event)

\* an engine with a book that has buffered two diffs while its snapshot is in
\* flight
C33_Witness ==
    \E s \in Engines :
        /\ trackers[s].resyncInFlight
        /\ fetchBy[s] # "none"
        /\ trackers[s].isSynced
        /\ trackers[s].lastUpdateId > 0
        /\ Len(trackers[s].buffer) = 2
        /\ trackers[s].buffer[2].u = streamPos[s]
        /\ trackers[s].buffer[1].U > trackers[s].lastUpdateId
\* C34: a snapshot attempt that fails before the commit (status not ok,
\* JSON that does not parse, a malformed payload, a network error) leaves
\* bids, asks, lastUpdateId and isSynced as they were, leaves needsResync
\* TRUE where it was TRUE, and ends with resyncInFlight FALSE.
C34_FailedAttemptKeepsBook ==
    \A s \in Engines :
        fetchBy[s] # "none" =>
            \A kind \in FailKinds :
                LET e == trackers[s]
                    after == initSnapshotFail(e, kind, now)
                IN  /\ Book(after) = Book(e)
                    /\ after.isSynced = e.isSynced
                    /\ after.buffer = e.buffer
                    /\ e.needsResync => after.needsResync
                    /\ ~after.resyncInFlight

\* an engine with a seeded book whose snapshot attempt has just failed
C34_Witness ==
    \E s \in Engines :
        /\ fetchBy[s] = "none"
        /\ ~trackers[s].resyncInFlight
        /\ trackers[s].lastResyncAt = now
        /\ trackers[s].snapshotBackoffMs = 2 * minBackoffMs
        /\ trackers[s].retryTimeoutId = now + 2 * minBackoffMs
        /\ trackers[s].isSynced
        /\ trackers[s].needsResync
        /\ trackers[s].lastUpdateId > 0
\* C35: an engine starts a snapshot attempt, from the scheduler queue or
\* from its retry timer, no earlier than its current backoff after the start
\* of its previous attempt.
C35_AttemptsBackoffApart ==
    [][ \A s \in Engines :
          (~trackers[s].resyncInFlight /\ trackers'[s].resyncInFlight)
          => now - trackers[s].lastResyncAt >= trackers[s].snapshotBackoffMs ]_vars
\* C36: every snapshot attempt that fails before the commit doubles
\* snapshotBackoffMs up to the cap of 30000; a commit whose replay succeeds
\* resets it to 2000 and nothing else does; a commit whose replay fails
\* leaves it as it is and leaves a retry pending, due after that backoff
\* when none was pending before.
C36_BackoffDoublesAndResets ==
    /\ [](\A s \in Engines :
            fetchBy[s] # "none" =>
              LET e == trackers[s]
              IN  /\ \A kind \in FailKinds :
                        initSnapshotFail(e, kind, now).snapshotBackoffMs
                            = Min(2 * e.snapshotBackoffMs, 30000)
                  /\ \A data \in Snapshots(MaxSchedId, {<< >>}, {<< >>}) :
                        LET after == initSnapshotOk(e, data, now)
                        IN  IF replayBuffer(snapshotCommit(e, data)).ok
                            THEN after.snapshotBackoffMs = 2000
                            ELSE /\ after.snapshotBackoffMs = e.snapshotBackoffMs
                                 /\ after.retryTimeoutId # NoTimer
                                 /\ e.retryTimeoutId = NoTimer
                                       => after.retryTimeoutId = now + e.snapshotBackoffMs)
    /\ [][ \A s \in Engines :
             trackers'[s].snapshotBackoffMs # trackers[s].snapshotBackoffMs
             => /\ fetchBy[s] # "none"
                /\ fetchBy'[s] = "none"
                /\ \/ trackers'[s].snapshotBackoffMs
                          = Min(2 * trackers[s].snapshotBackoffMs, 30000)
                   \/ /\ trackers'[s].snapshotBackoffMs = 2000
                      /\ trackers'[s].isSynced
                      /\ ~trackers'[s].needsResync ]_vars

\* an engine at the cap whose snapshot has just committed and failed its
\* replay: the backoff is still at the cap and a retry is pending
C36_Witness ==
    \E s \in Engines :
        /\ trackers[s].snapshotBackoffMs = maxBackoffMs
        /\ hist[s].noStart \in {"failedBehind", "failedAhead"}
        /\ fetchBy[s] = "none"
        /\ ~trackers[s].isSynced
        /\ trackers[s].retryTimeoutId = now + maxBackoffMs
\* C37: the retryAfter of a 503 response of the depth endpoint is the
\* backoffMs the rate-limit tracker holds for the symbol when the response
\* is sent, also when the failed fetch of this request created it.
C37_RetryAfterIsCurrentBackoff ==
    lastResponse.status = 503 =>
        lastResponse.retryAfter = GetState(rateLimitState, "BTCUSDT").backoffMs
\* C38: binanceWsState agrees with the referenced upstream socket: it is
\* 'connected' only while that socket is open, 'connecting' only while it is
\* connecting, and 'disconnected' only while there is none or it has closed
\* or is closing; the events of a replaced socket do not change it.
C38_StateAgreesWithCurrentSocket ==
    /\ binanceWsState = "connected"
          => binanceWs # NoSocket /\ sockets[binanceWs].readyState = "OPEN"
    /\ binanceWsState = "connecting"
          => binanceWs # NoSocket /\ sockets[binanceWs].readyState = "CONNECTING"
    /\ binanceWsState = "disconnected"
          => binanceWs = NoSocket
             \/ sockets[binanceWs].readyState \in {"CLOSING", "CLOSED"}
\* C39: the close event of a socket that connectToBinance closed to
\* re-subscribe with a changed symbol set neither increments
\* reconnectAttempts nor schedules a reconnect timer.
C39_DeliberateCloseSchedulesNothing ==
    [][ \A k \in DOMAIN sockets :
          ( /\ sockets[k].closedToResubscribe
            /\ sockets[k].readyState = "CLOSING"
            /\ k \notin DOMAIN sockets' \/ sockets'[k].readyState = "CLOSED" )
          => /\ reconnectAttempts' = reconnectAttempts
             /\ reconnectTimers' = reconnectTimers ]_vars
\* C40: a control message of a connected client is handled as a whole:
\* whenever it changes the client's symbol set, the new set is the old one
\* with every listed symbol of a subscribe / unsubscribe message applied
\* upper-cased, and the upstream symbol set has been recomputed from the
\* registry; otherwise the registry and the upstream are left alone. The
\* client stays connected.
C40_ControlMessageAtomic ==
    [][ \A c \in wsClients :
          (c \in wsClients' /\ clientSymbols'[c] # clientSymbols[c])
          => /\ \E msg \in ControlMessages :
                  /\ msg.json /\ msg.isArray
                  /\ msg.type \in {"subscribe", "unsubscribe"}
                  /\ \A i \in DOMAIN msg.symbols : msg.symbols[i] # NotAString
                  /\ clientSymbols'[c] =
                        ForEachSymbol(msg.symbols, clientSymbols[c],
                                      msg.type = "subscribe").subs
             /\ currentStreamSymbols' = UNION {clientSymbols'[d] : d \in DOMAIN clientSymbols'}
             /\ clientReady'[c] = clientReady[c] ]_vars

=============================================================================
